---- MODULE Spec2Model ----
(***************************************************************************)
(* ASR text postprocessing (Russian / Kazakh): tokenizer, case adapters,   *)
(* dictionary replacers and the two pipeline variants (asr_postprocess and *)
(* postprocess).                                                           *)
(*                                                                         *)
(* A string is a sequence of one-character strings.  Cyrillic examples are *)
(* written with Latin letters of the same case (slavo = "славо",           *)
(* slovo = "слово"): only the character classes and the case mapping of a  *)
(* character are used by the code.                                         *)
(***************************************************************************)
EXTENDS Integers, Sequences, FiniteSets, TLC

VARIABLES
    op,        \* the function applied last ("none" before any call)
    text,      \* the text argument
    table,     \* the replacements argument: a dict, as its sequence of <<key, value>> items
    sample,    \* the case adapter's sample (src / sample)
    target,    \* the case adapter's target (dst / target)
    ret,       \* the value the call returned
    ret2,      \* the value a second application on ret returned
    calls,     \* how many times the function was applied
    lim,       \* the limit argument of _build_sentence_candidates (0 outside such a call)
    stages,    \* the stages the postprocess call in progress has invoked, in order
    tables,    \* the module-level replacement tables: defaults and common, per language
    \* one call of asr_postprocess postprocess_text_ru / postprocess_text_kk
    lang,              \* "ru" or "kk"
    custom,            \* custom_replacements: [given |-> FALSE] is None
    enable_spellcheck, \* the enable_spellcheck argument
    spellchecker,      \* what _try_load_spellchecker finds installed
    gen,               \* lm_generate_candidates_fn
    scorer,            \* lm_score_fn
    pc,                \* where the call is: "idle", "start", "replaced", "spellchecked", "done"
    replacements,      \* the local dict replacements
    out,               \* the local out
    result,            \* the value returned
    \* calls of postprocess (postprocess/ru.py, postprocess/kk.py) in one process
    SymSpell,          \* FALSE when "from symspellpy import SymSpell" failed (SymSpell = None)
    language_model,    \* what the LM rerank finds: "absent", "load_raises", "likes_o", "likes_a"
    _SYM_SPELL,        \* the module global _SYM_SPELL_RU / _SYM_SPELL_KK
    dictionary,        \* the resource the dictionary path of the call resolves to
    max_edit_distance, \* the max_edit_distance argument
    enable_lm_rerank,  \* enable_lm_rerank after the environment default
    work,              \* the local text after the common replacements
    sym,               \* the local sym
    corrected,         \* the local corrected
    ambiguous,         \* the local ambiguous
    candidates         \* the local candidates, then unique_candidates

fnVars == <<op, text, table, sample, target, ret, ret2, calls, lim>>
asrVars == <<lang, custom, enable_spellcheck, spellchecker, gen, scorer, pc, replacements, out, result>>
ppVars == <<SymSpell, language_model, _SYM_SPELL, dictionary, max_edit_distance, enable_lm_rerank,
            work, sym, corrected, ambiguous, candidates>>
vars == <<fnVars, asrVars, ppVars, stages, tables>>

-----------------------------------------------------------------------------
(* Characters *)

\* Latin letters; in Russian examples they stand for the Cyrillic letter of the
\* usual transliteration, with c = che, j = short i, q = soft sign, w = sha,
\* x = ya, z = zhe.  "ka", "kb", ... are the Cyrillic letters of the Kazakh
\* tables, whose keys are Latin and whose values are Cyrillic.
LowerLetters ==
    <<"a", "b", "c", "d", "e", "g", "i", "j", "k", "l", "m", "n", "o", "p", "q", "r", "s", "t",
      "u", "v", "w", "x", "y", "z",
      "ka", "kb", "ke", "kg", "kh", "ki", "kk", "kl", "km", "kn", "ko", "kp", "kr", "ks", "kt",
      "ku", "kx", "ky", "kz">>
UpperLetters ==
    <<"A", "B", "C", "D", "E", "G", "I", "J", "K", "L", "M", "N", "O", "P", "Q", "R", "S", "T",
      "U", "V", "W", "X", "Y", "Z",
      "KA", "KB", "KE", "KG", "KH", "KI", "KK", "KL", "KM", "KN", "KO", "KP", "KR", "KS", "KT",
      "KU", "KX", "KY", "KZ">>
Digits == {"1"}

Range(s) == {s[i] : i \in 1..Len(s)}

IndexOf(s, c) == CHOOSE i \in 1..Len(s) : s[i] = c

\* str.isupper / str.islower of one character
IsUpperCh(c) == c \in Range(UpperLetters)
IsLowerCh(c) == c \in Range(LowerLetters)
\* \p{L}
IsLetter(c) == IsUpperCh(c) \/ IsLowerCh(c)
\* \w (re.UNICODE): letters, digits, underscore
IsWordCh(c) == IsLetter(c) \/ c \in Digits \/ c = "_"

UpperCh(c) == IF IsLowerCh(c) THEN UpperLetters[IndexOf(LowerLetters, c)] ELSE c
LowerCh(c) == IF IsUpperCh(c) THEN LowerLetters[IndexOf(UpperLetters, c)] ELSE c

-----------------------------------------------------------------------------
(* Python str methods *)

StrUpper(s) == [i \in 1..Len(s) |-> UpperCh(s[i])]
StrLower(s) == [i \in 1..Len(s) |-> LowerCh(s[i])]

\* s[:1] and s[1:]
First1(s) == SubSeq(s, 1, IF Len(s) >= 1 THEN 1 ELSE 0)
Rest1(s) == SubSeq(s, 2, Len(s))

\* str.isupper(): at least one cased character and no lowercase one
StrIsUpper(s) ==
    /\ \E i \in 1..Len(s) : IsUpperCh(s[i])
    /\ \A i \in 1..Len(s) : ~IsLowerCh(s[i])

\* str.islower(): at least one cased character and no uppercase one
StrIsLower(s) ==
    /\ \E i \in 1..Len(s) : IsLowerCh(s[i])
    /\ \A i \in 1..Len(s) : ~IsUpperCh(s[i])

\* str.istitle(): at least one cased character; an uppercase character only
\* after an uncased one (or at the start), a lowercase one only after a cased one
StrIsTitle(s) ==
    /\ \E i \in 1..Len(s) : IsLetter(s[i])
    /\ \A i \in 1..Len(s) :
          LET prevCased == i > 1 /\ IsLetter(s[i - 1])
          IN  /\ IsUpperCh(s[i]) => ~prevCased
              /\ IsLowerCh(s[i]) => prevCased

\* str.capitalize()
StrCapitalize(s) == StrUpper(First1(s)) \o StrLower(Rest1(s))

RECURSIVE Concat(_)
\* "".join(tokens)
Concat(toks) == IF toks = <<>> THEN <<>> ELSE Head(toks) \o Concat(Tail(toks))

-----------------------------------------------------------------------------
(* Regular expressions of the source, over offsets 0..Len(text) *)

Min(a, b) == IF a < b THEN a ELSE b

\* text[start:end]
Slice(s, start, end) == SubSeq(s, Min(start, Len(s)) + 1, Min(end, Len(s)))

\* The character at offset k (text[k]), "" outside the text
At(s, k) == IF k >= 0 /\ k < Len(s) THEN s[k + 1] ELSE ""

\* kind "w": WORD_RE = \w+            (asr_postprocess/utils.py)
\* kind "L": _WORD_RE = \p{L}+[\p{L}\-']*   (postprocess/ru.py, postprocess/kk.py)
StartsMatch(kind, c) == IF kind = "w" THEN IsWordCh(c) ELSE IsLetter(c)
ContinuesMatch(kind, c) ==
    IF kind = "w" THEN IsWordCh(c) ELSE IsLetter(c) \/ c = "-" \/ c = "'"

\* Offset of the first character at or after pos that can start a match, -1 if none
NextStart(s, pos, kind) ==
    LET cands == {k \in pos..(Len(s) - 1) : StartsMatch(kind, At(s, k))}
    IN  IF cands = {} THEN -1 ELSE CHOOSE k \in cands : \A j \in cands : k <= j

\* End offset of the greedy match starting at offset start
RunEnd(s, start, kind) ==
    LET stops == {k \in (start + 1)..Len(s) : k = Len(s) \/ ~ContinuesMatch(kind, At(s, k))}
    IN  CHOOSE k \in stops : \A j \in stops : k <= j

RECURSIVE FindIter(_, _, _)
\* [m.span() for m in RE.finditer(text)] from offset pos on
FindIter(s, pos, kind) ==
    LET start == NextStart(s, pos, kind)
    IN  IF start = -1 THEN <<>>
        ELSE LET end == RunEnd(s, start, kind)
             IN  <<<<start, end>>>> \o FindIter(s, end, kind)

\* WORD_RE.fullmatch(token) is not None
is_word(token) ==
    /\ token # <<>>
    /\ \A i \in 1..Len(token) : IsWordCh(token[i])

-----------------------------------------------------------------------------
(* Tokenizer: asr_postprocess/utils.py split_tokens_with_delimiters *)

RECURSIVE SplitLoop(_, _, _)
\* Variant: the piece after the last match is not appended
SplitLoop_NoTail(s, matches, idx) ==
    IF matches = <<>>
    THEN <<>>
    ELSE LET start == Head(matches)[1]
             end == Head(matches)[2]
             gap == IF start > idx THEN <<<<idx, start>>>> ELSE <<>>
         IN  gap \o <<<<start, end>>>> \o SplitLoop(s, Tail(matches), end)

\* The loop over the matches and the trailing piece, as spans text[a:b]
SplitLoop(s, matches, idx) ==
    IF matches = <<>>
    THEN IF idx < Len(s) THEN <<<<idx, Len(s)>>>> ELSE <<>>
    ELSE LET start == Head(matches)[1]
             end == Head(matches)[2]
             gap == IF start > idx THEN <<<<idx, start>>>> ELSE <<>>
         IN  gap \o <<<<start, end>>>> \o SplitLoop(s, Tail(matches), end)

\* The spans of the tokens split_tokens_with_delimiters appends, in order
split_token_spans(s) ==
    IF s = <<>> THEN <<>> ELSE SplitLoop(s, FindIter(s, 0, "w"), 0)

split_tokens_with_delimiters(s) ==
    LET spans == split_token_spans(s)
    IN  [i \in 1..Len(spans) |-> Slice(s, spans[i][1], spans[i][2])]

-----------------------------------------------------------------------------
(* Case adapters *)

\* Variant: the replacement is emitted as the table gives it
preserve_case_AsIs(src, dst) == dst

\* asr_postprocess/utils.py apply_replacements.preserve_case
preserve_case(src, dst) ==
    IF src = <<>> THEN dst
    ELSE IF StrIsUpper(First1(src)) /\ StrIsLower(Rest1(src))
         THEN StrUpper(First1(dst)) \o StrLower(Rest1(dst))
    ELSE IF StrIsUpper(src) THEN StrUpper(dst)
    ELSE IF StrIsLower(src) THEN StrLower(dst)
    ELSE dst

\* postprocess/ru.py, postprocess/kk.py __match_case_like
_match_case_like(smp, tgt) ==
    IF StrIsUpper(smp) THEN StrUpper(tgt)
    ELSE IF StrIsUpper(First1(smp)) THEN StrUpper(First1(tgt)) \o Rest1(tgt)
    ELSE StrLower(tgt)

-----------------------------------------------------------------------------
(* Dicts: a dict is the sequence of its <<key, value>> items, keys distinct *)

HasKey(d, k) == \E i \in 1..Len(d) : d[i][1] = k

\* d[k]
DictGet(d, k) == d[CHOOSE i \in 1..Len(d) : d[i][1] = k][2]

RECURSIVE DictSet(_, _, _)
\* d[k] = v: an existing key keeps its place, a new key goes last
DictSet(d, k, v) ==
    IF d = <<>> THEN <<<<k, v>>>>
    ELSE IF Head(d)[1] = k THEN <<<<k, v>>>> \o Tail(d)
    ELSE <<Head(d)>> \o DictSet(Tail(d), k, v)

RECURSIVE DictUpdate(_, _)
\* Variant: update that keeps the value of a key the dict already has
DictUpdate_KeepExisting(d, other) ==
    IF other = <<>> THEN d
    ELSE IF HasKey(d, Head(other)[1]) THEN DictUpdate(d, Tail(other))
    ELSE DictUpdate(DictSet(d, Head(other)[1], Head(other)[2]), Tail(other))

\* d.update(other)
DictUpdate(d, other) ==
    IF other = <<>> THEN d
    ELSE DictUpdate(DictSet(d, Head(other)[1], Head(other)[2]), Tail(other))

RECURSIVE normalized_map(_)
\* {k.lower(): v for k, v in reps.items()}: a later item overwrites
normalized_map(d) ==
    IF d = <<>> THEN <<>>
    ELSE LET init == SubSeq(d, 1, Len(d) - 1)
             last == d[Len(d)]
         IN  DictSet(normalized_map(init), StrLower(last[1]), last[2])

-----------------------------------------------------------------------------
(* Dictionary replacer of asr_postprocess: utils.py apply_replacements *)

\* The token loop (lines 62-71): one output piece per token
ReplaceToken(t, nmap) ==
    IF is_word(t)
    THEN IF HasKey(nmap, StrLower(t))
         THEN preserve_case(t, DictGet(nmap, StrLower(t)))
         ELSE t
    ELSE t

apply_replacements(s, reps) ==
    IF s = <<>> \/ reps = <<>> THEN s
    ELSE LET tokens == split_tokens_with_delimiters(s)
             nmap == normalized_map(reps)
         IN  Concat([i \in 1..Len(tokens) |-> ReplaceToken(tokens[i], nmap)])

-----------------------------------------------------------------------------
(* re.sub of an escaped literal between two zero-width conditions *)

\* re.IGNORECASE comparison of text[k : k + len(lit)] with lit
LitAt(s, k, lit) ==
    /\ k + Len(lit) <= Len(s)
    /\ \A i \in 1..Len(lit) : LowerCh(s[k + i]) = LowerCh(lit[i])

\* \b at offset k
WordBoundary(s, k) == IsWordCh(At(s, k - 1)) # IsWordCh(At(s, k))

\* Variant: the literal is matched anywhere, also inside a longer word
MatchAt_NoBoundary(s, k, lit, mode) == LitAt(s, k, lit)

\* mode "b": \b lit \b        (postprocess/utils.py line 32)
\* mode "L": (?<!\p{L}) lit (?!\p{L})   (postprocess/ru.py line 50)
MatchAt(s, k, lit, mode) ==
    /\ LitAt(s, k, lit)
    /\ IF mode = "b"
       THEN WordBoundary(s, k) /\ WordBoundary(s, k + Len(lit))
       ELSE ~IsLetter(At(s, k - 1)) /\ ~IsLetter(At(s, k + Len(lit)))

\* What the match text[k : k + len(lit)] is replaced by
Replacement(s, k, lit, right, mode) ==
    IF mode = "b" THEN right
    ELSE _match_case_like(Slice(s, k, k + Len(lit)), right)

RECURSIVE SubLiteral(_, _, _, _, _)
\* pattern.sub(repl, text) from offset pos on: leftmost non-overlapping matches
SubLiteral(s, pos, lit, right, mode) ==
    LET hits == {k \in pos..(Len(s) - Len(lit)) : MatchAt(s, k, lit, mode)}
    IN  IF hits = {} THEN Slice(s, pos, Len(s))
        ELSE LET k == CHOOSE h \in hits : \A j \in hits : h <= j
             IN  Slice(s, pos, k) \o Replacement(s, k, lit, right, mode)
                    \o SubLiteral(s, k + Len(lit), lit, right, mode)

RECURSIVE SubEach(_, _, _)
\* for wrong, right in reps.items(): text = re.sub(...)
SubEach(s, items, mode) ==
    IF items = <<>> THEN s
    ELSE SubEach(SubLiteral(s, 0, Head(items)[1], Head(items)[2], mode), Tail(items), mode)

-----------------------------------------------------------------------------
(* Dictionary replacer of postprocess: ru.py / kk.py _replace_common_errors *)

_replace_common_errors(s, reps) == SubEach(s, reps, "L")

-----------------------------------------------------------------------------
(* Dictionary replacer of postprocess/utils.py: apply_replacements *)

\* repl_word (lines 17-27): keys are looked up as written, by word.lower()
repl_word(word, reps) ==
    IF HasKey(reps, StrLower(word))
    THEN LET replacement == DictGet(reps, StrLower(word))
         IN  IF StrIsTitle(word) THEN StrCapitalize(replacement)
             ELSE IF StrIsUpper(word) THEN StrUpper(replacement)
             ELSE replacement
    ELSE word

\* re.sub(r"\b\w+\b", repl_word, text): every maximal \w run is one match
SubWords(s, reps) ==
    LET spans == split_token_spans(s)
    IN  Concat([i \in 1..Len(spans) |->
            LET t == Slice(s, spans[i][1], spans[i][2])
            IN  IF is_word(t) THEN repl_word(t, reps) ELSE t])

utils_apply_replacements(s, reps) ==
    IF s = <<>> \/ reps = <<>> THEN s
    ELSE SubEach(SubWords(s, reps), reps, "b")

-----------------------------------------------------------------------------
(* Inputs *)

\* Longest enumerated input string
MaxLen == 3

StringsOver(chars, n) == UNION {[1..k -> chars] : k \in 0..n}

\* Both cases of two letters, a digit (\w but not \p{L}), a hyphen (inside a
\* _WORD_RE match, outside a \w+ match) and a space
TextChars == {"a", "A", "b", "B", "1", "-", " "}

slavo == <<"s", "l", "a", "v", "o">>
slovo == <<"s", "l", "o", "v", "o">>
Slavo == <<"S", "l", "a", "v", "o">>
Slovo == <<"S", "l", "o", "v", "o">>
SLAVO == <<"S", "L", "A", "V", "O">>
SLOVO == <<"S", "L", "O", "V", "O">>
slavavo == <<"s", "l", "a", "v", "a", "v", "o">>

ExampleTexts == {Slavo, SLAVO, slavo, slavavo}
ExampleTable == <<<<slavo, slovo>>>>

Texts == StringsOver(TextChars, MaxLen)

Keys == {<<"a">>, <<"b">>, <<"a", "b">>}
Values ==
    {<<"b">>, <<"B">>, <<"b", "a">>, <<"b", " ", "b">>, <<"b", " ", "a">>, <<"A", "b">>, <<"a", "1">>}

\* One-item tables over Keys x Values, and two-item tables: a value that is a
\* word of another value, keys that differ in case only, a key with capitals
Tables ==
    {<<<<k, v>>>> : k \in Keys, v \in Values}
    \cup {<<<<k1, v>>, <<k2, <<"a", "a">>>>>> : k1 \in {<<"a">>}, k2 \in {<<"b">>}, v \in Values}
    \cup { <<<< <<"a">>, <<"b">> >>, << <<"A">>, <<"a", "a">> >>>>,
           <<<< <<"A", "b">>, <<"b">> >>>>,
           <<>> }

\* The dictionary replacers of the three modules
Replacers == {"apply_replacements", "utils_apply_replacements", "_replace_common_errors"}

Replace(which, s, reps) ==
    IF which = "apply_replacements" THEN apply_replacements(s, reps)
    ELSE IF which = "utils_apply_replacements" THEN utils_apply_replacements(s, reps)
    ELSE _replace_common_errors(s, reps)

-----------------------------------------------------------------------------
(* asr_postprocess: default tables *)

kanewna == <<"k", "a", "n", "e", "w", "n", "a">>
konecno == <<"k", "o", "n", "e", "c", "n", "o">>
wasq == <<"w", "a", "s", "q">>
sejcas == <<"s", "e", "j", "c", "a", "s">>

bugyn == <<"b", "u", "g", "y", "n">>
bugin == <<"b", "u", "g", "i", "n">>
maktap == <<"m", "a", "k", "t", "a", "p">>
mektep == <<"m", "e", "k", "t", "e", "p">>
sagalak == <<"s", "a", "g", "a", "l", "a", "k">>
kk_bugin == <<"kb", "ku", "kg", "ki", "kn">>
kk_mektep == <<"km", "ke", "kk", "kt", "ke", "kp">>
kk_sagalyk == <<"ks", "ka", "kh", "ka", "kl", "ky", "kx">>

\* asr_postprocess/ru.py
DEFAULT_RU_REPLACEMENTS == <<<<slavo, slovo>>, <<kanewna, konecno>>, <<wasq, sejcas>>>>

\* asr_postprocess/kk.py
DEFAULT_KK_REPLACEMENTS ==
    <<<<bugyn, kk_bugin>>, <<bugin, kk_bugin>>, <<maktap, kk_mektep>>, <<mektep, kk_mektep>>,
      <<sagalak, kk_sagalyk>>>>

DefaultsOf(l) == IF l = "ru" THEN DEFAULT_RU_REPLACEMENTS ELSE DEFAULT_KK_REPLACEMENTS

-----------------------------------------------------------------------------
(* postprocess: default tables *)

\* postprocess/ru.py: slavo, karova, pazalujsta, scas, wto, kagda, patamucto
_COMMON_REPLACEMENTS_RU ==
    << <<slavo, slovo>>,
       << <<"k", "a", "r", "o", "v", "a">>, <<"k", "o", "r", "o", "v", "a">> >>,
       << <<"p", "a", "z", "a", "l", "u", "j", "s", "t", "a">>,
          <<"p", "o", "z", "a", "l", "u", "j", "s", "t", "a">> >>,
       << <<"s", "c", "a", "s">>, sejcas >>,
       << <<"w", "t", "o">>, <<"c", "t", "o">> >>,
       << <<"k", "a", "g", "d", "a">>, <<"k", "o", "g", "d", "a">> >>,
       << <<"p", "a", "t", "a", "m", "u", "c", "t", "o">>,
          <<"p", "o", "t", "o", "m", "u", " ", "c", "t", "o">> >> >>

\* postprocess/kk.py: bugyn, maktap, sagat, balalar, joly
_COMMON_REPLACEMENTS_KK ==
    << <<bugyn, kk_bugin>>,
       <<maktap, kk_mektep>>,
       << <<"s", "a", "g", "a", "t">>, <<"ks", "ka", "kh", "ka", "kt">> >>,
       << <<"b", "a", "l", "a", "l", "a", "r">>, <<"kb", "ka", "kl", "ka", "kl", "ka", "kr">> >>,
       << <<"j", "o", "l", "y">>, <<"kz", "ko", "kl", "ky">> >> >>

CommonOf(l) == IF l = "ru" THEN _COMMON_REPLACEMENTS_RU ELSE _COMMON_REPLACEMENTS_KK

\* The module-level tables of both packages, as the source defines them
tablesAtImport ==
    [defaults |-> [l \in {"ru", "kk"} |-> DefaultsOf(l)],
     common |-> [l \in {"ru", "kk"} |-> CommonOf(l)]]

\* Variant: no copy is made, the update acts on the module's table
DefaultsAfterMerge_NoCopy(defaults, merged) == merged

\* replacements = dict(DEFAULT_..._REPLACEMENTS); replacements.update(custom):
\* the items of the module's table after the update of the copy
DefaultsAfterMerge(defaults, merged) == defaults

-----------------------------------------------------------------------------
(* Calls of the tokenizer and of the dictionary replacers *)

CaseIdle == sample = <<>> /\ target = <<>>

\* None, as the value of _SYM_SPELL_RU / _SYM_SPELL_KK and of the local sym
NoIndex == [loaded |-> FALSE, max_dictionary_edit_distance |-> 0, terms |-> <<>>]

\* No call of the postprocess package is in progress, nothing is cached
PpIdle ==
    /\ SymSpell = FALSE
    /\ language_model = "absent"
    /\ _SYM_SPELL = NoIndex
    /\ dictionary = [state |-> "missing", terms |-> <<>>]
    /\ max_edit_distance = 2
    /\ enable_lm_rerank = FALSE
    /\ work = <<>>
    /\ sym = NoIndex
    /\ corrected = <<>>
    /\ ambiguous = <<>>
    /\ candidates = <<>>

\* No pipeline call is in progress
NoCall ==
    /\ lang = "ru"
    /\ custom = [given |-> FALSE, items |-> <<>>]
    /\ enable_spellcheck = FALSE
    /\ spellchecker = "none"
    /\ gen = [kind |-> "none", cands |-> <<>>]
    /\ scorer = [kind |-> "none", scores |-> <<>>]
    /\ pc = "idle"
    /\ replacements = <<>>
    /\ out = <<>>
    /\ result = <<>>
    /\ PpIdle

Init ==
    /\ op = "none"
    /\ \/ text \in Texts /\ table \in Tables
       \/ text \in ExampleTexts /\ table = ExampleTable
    /\ CaseIdle
    /\ ret = <<>>
    /\ ret2 = <<>>
    /\ calls = 0
    /\ stages = <<>>
    /\ tables = tablesAtImport
    /\ lim = 0
    /\ NoCall

\* tokens = split_tokens_with_delimiters(text)
Split ==
    /\ UNCHANGED <<stages, tables>>
    /\ op = "none"
    /\ op' = "split"
    /\ calls' = 1
    /\ ret' = split_tokens_with_delimiters(text)
    /\ UNCHANGED <<text, table, sample, target, ret2, lim, asrVars, ppVars>>

\* out = <replacer>(text, table)
Apply(which) ==
    /\ UNCHANGED <<stages, tables>>
    /\ op = "none"
    /\ op' = which
    /\ calls' = 1
    /\ ret' = Replace(which, text, table)
    /\ UNCHANGED <<text, table, sample, target, ret2, lim, asrVars, ppVars>>

\* again = <replacer>(out, table), with the same table
ApplyAgain(which) ==
    /\ UNCHANGED <<stages, tables>>
    /\ op = which
    /\ calls = 1
    /\ calls' = 2
    /\ ret2' = Replace(which, ret, table)
    /\ UNCHANGED <<op, text, table, sample, target, ret, lim, asrVars, ppVars>>

ApplyAsr == Apply("apply_replacements")
ApplyUtils == Apply("utils_apply_replacements")
ReplaceCommon == Apply("_replace_common_errors")
ApplyAsrAgain == ApplyAgain("apply_replacements")
ApplyUtilsAgain == ApplyAgain("utils_apply_replacements")
ReplaceCommonAgain == ApplyAgain("_replace_common_errors")

Next ==
    \/ Split
    \/ ApplyAsr
    \/ ApplyUtils
    \/ ReplaceCommon
    \/ ApplyAsrAgain
    \/ ApplyUtilsAgain
    \/ ReplaceCommonAgain

Spec == Init /\ [][Next]_vars

-----------------------------------------------------------------------------
(* C1: for every input string, the tokens of split_tokens_with_delimiters  *)
(* concatenated in order give the string back, and their spans are         *)
(* non-empty, start at 0, end at len(text) and each starts where the       *)
(* previous one ends (they cover [0, len) exactly once).                   *)

SpansCover(spans, n) ==
    /\ \A i \in 1..Len(spans) : spans[i][1] < spans[i][2]
    /\ spans # <<>> => spans[1][1] = 0 /\ spans[Len(spans)][2] = n
    /\ spans = <<>> => n = 0
    /\ \A i \in 1..(Len(spans) - 1) : spans[i][2] = spans[i + 1][1]

C1_Reconstruction ==
    op = "split" =>
        /\ Concat(ret) = text
        /\ SpansCover(split_token_spans(text), Len(text))
        /\ Len(ret) = Len(split_token_spans(text))

\* A text with a delimiter, a word and a trailing delimiter was tokenized
C1_Witness ==
    /\ op = "split"
    /\ Len(ret) = 3
    /\ ~is_word(ret[1]) /\ is_word(ret[2]) /\ ~is_word(ret[3])

-----------------------------------------------------------------------------
(* Tokens of a text under either word pattern, and the words of a table *)

TokensOf(s, kind) ==
    LET spans == IF s = <<>> THEN <<>> ELSE SplitLoop(s, FindIter(s, 0, kind), 0)
    IN  [i \in 1..Len(spans) |-> Slice(s, spans[i][1], spans[i][2])]

\* The word pattern of the module a replacer lives in
KindOf(which) == IF which = "_replace_common_errors" THEN "L" ELSE "w"

\* t equals a key of the table, letter case ignored
IsKeyToken(t, d) == \E i \in 1..Len(d) : StrLower(d[i][1]) = StrLower(t)

\* The value of the last item whose key equals t, letter case ignored
ValueFor(t, d) ==
    LET hits == {i \in 1..Len(d) : StrLower(d[i][1]) = StrLower(t)}
    IN  d[CHOOSE i \in hits : \A j \in hits : j <= i][2]

-----------------------------------------------------------------------------
(* C2: a replacer changes only whole word tokens equal to a key, letter    *)
(* case ignored: every other token of the text (delimiters, words that are *)
(* not a key, words that merely contain a key before a hyphen, apostrophe  *)
(* or digit) is in the output unchanged and in the same order.             *)

RECURSIVE Framed(_, _, _)
\* out is the tokens in order, with anything in place of the tokens equal to a key
Framed(toks, o, d) ==
    IF toks = <<>> THEN o = <<>>
    ELSE LET t == Head(toks)
         IN  IF IsKeyToken(t, d)
             THEN \E k \in 0..Len(o) : Framed(Tail(toks), SubSeq(o, k + 1, Len(o)), d)
             ELSE /\ Len(o) >= Len(t)
                  /\ SubSeq(o, 1, Len(t)) = t
                  /\ Framed(Tail(toks), SubSeq(o, Len(t) + 1, Len(o)), d)

C2_OnlyWholeTokens ==
    op \in Replacers => Framed(TokensOf(text, KindOf(op)), ret, table)

\* The same statement for the token-wise replacers of asr_postprocess/utils.py
\* and postprocess/utils.py alone
C2_OnlyWholeTokens_TokenWise ==
    op \in {"apply_replacements", "utils_apply_replacements"} =>
        Framed(TokensOf(text, "w"), ret, table)

-----------------------------------------------------------------------------
(* C3: a word token equal to a key (letter case ignored) is emitted as the *)
(* key's value in the casing style of the token: upper-case token, value   *)
(* upper-cased; first letter capital and the rest lower-case, value        *)
(* capitalized; lower-case token, value lower-cased; otherwise the value   *)
(* as written.  With the table {slavo: slovo}: Slavo gives Slovo, SLAVO    *)
(* gives SLOVO, slavavo is returned unchanged, in all three replacers.     *)

\* Rules 1-4 of the case adapter, in the documented order
Styled(smp, tgt) ==
    IF StrIsUpper(smp) THEN StrUpper(tgt)
    ELSE IF Len(smp) >= 1 /\ IsUpperCh(smp[1]) /\ \A i \in 2..Len(smp) : ~IsUpperCh(smp[i])
         THEN StrCapitalize(tgt)
    ELSE IF StrIsLower(smp) THEN StrLower(tgt)
    ELSE tgt

-----------------------------------------------------------------------------
(* C6: applying a replacer twice with the same table gives what applying   *)
(* it once gives.                                                          *)

AppliedTwice == op \in Replacers /\ calls = 2

\* No replacement value is itself a key of the table
NoValueIsKey(d) == \A i, j \in 1..Len(d) : d[i][2] # d[j][1]

\* As claimed: idempotent whenever no value is itself a key
C6_Idempotent_AsClaimed ==
    AppliedTwice /\ NoValueIsKey(table) => ret2 = ret

\* The maximal runs of letters of a string
LetterRuns(s) ==
    {Slice(s, a, b) : <<a, b>> \in
        {<<a, b>> \in (0..Len(s)) \X (0..Len(s)) :
            /\ a < b
            /\ \A k \in a..(b - 1) : IsLetter(At(s, k))
            /\ ~IsLetter(At(s, a - 1))
            /\ ~IsLetter(At(s, b))}}

LettersOnly(s) == s # <<>> /\ \A i \in 1..Len(s) : IsLetter(s[i])

\* Keys are words of letters, and no word of a value is a key, letter case ignored
NoValueWordIsKey(d) ==
    /\ \A i \in 1..Len(d) : LettersOnly(d[i][1])
    /\ \A i \in 1..Len(d) : \A w \in LetterRuns(d[i][2]) : ~IsKeyToken(w, d)

\* Amended: idempotent whenever no word of a value is a key, letter case ignored
C6_Idempotent ==
    AppliedTwice /\ NoValueWordIsKey(table) => ret2 = ret

\* A token was replaced by a value of two words, and the second run changed nothing
C6_Witness ==
    /\ op = "apply_replacements"
    /\ calls = 2
    /\ table # <<>>
    /\ NoValueWordIsKey(table)
    /\ \E i \in 1..Len(table) : \E k \in 1..Len(table[i][2]) : table[i][2][k] = " "
    /\ ret # text
    /\ ret2 = ret

-----------------------------------------------------------------------------
(* Calls of the two case adapters *)

SampleChars == {"a", "A", "B", "1"}
TargetChars == {"a", "A", "1"}
Samples == StringsOver(SampleChars, MaxLen)
Targets == StringsOver(TargetChars, MaxLen)

CaseOps == {"preserve_case", "_match_case_like"}

InitCase ==
    /\ op = "none"
    /\ text = <<>>
    /\ table = <<>>
    /\ sample \in Samples
    /\ target \in Targets
    /\ ret = <<>>
    /\ ret2 = <<>>
    /\ calls = 0
    /\ stages = <<>>
    /\ tables = tablesAtImport
    /\ lim = 0
    /\ NoCall

\* preserve_case(sample, target)
PreserveCase ==
    /\ UNCHANGED <<stages, tables>>
    /\ op = "none"
    /\ op' = "preserve_case"
    /\ calls' = 1
    /\ ret' = preserve_case(sample, target)
    /\ UNCHANGED <<text, table, sample, target, ret2, lim, asrVars, ppVars>>

\* _match_case_like(sample, target)
MatchCaseLike ==
    /\ UNCHANGED <<stages, tables>>
    /\ op = "none"
    /\ op' = "_match_case_like"
    /\ calls' = 1
    /\ ret' = _match_case_like(sample, target)
    /\ UNCHANGED <<text, table, sample, target, ret2, lim, asrVars, ppVars>>

NextCase == PreserveCase \/ MatchCaseLike

SpecCase == InitCase /\ [][NextCase]_vars

\* The casing classes, as the adapters test them
FullyUpper(s) == StrIsUpper(s)
StrictTitle(s) == StrIsUpper(First1(s)) /\ StrIsLower(Rest1(s))
FullyLower(s) == StrIsLower(s)
MixedCase(s) == ~FullyUpper(s) /\ ~StrictTitle(s) /\ ~FullyLower(s)

UniformCaseRules(s, t, r) ==
    /\ FullyUpper(s) => r = StrUpper(t)
    /\ StrictTitle(s) => r = StrCapitalize(t)
    /\ FullyLower(s) => r = StrLower(t)

-----------------------------------------------------------------------------
(* C4: for a sample of uniform casing and any target, the case adapter     *)
(* returns the target upper-cased (sample fully upper-case), the target    *)
(* capitalized: first character upper-cased and the rest lower-cased       *)
(* (sample strict titlecase), or the target lower-cased (sample fully      *)
(* lower-case); each class fixes the result, whichever rule is tried first *)

C4_UniformCase ==
    op \in CaseOps => UniformCaseRules(sample, target, ret)

\* The same statement for preserve_case of asr_postprocess/utils.py alone
C4_UniformCase_preserve_case ==
    op = "preserve_case" => UniformCaseRules(sample, target, ret)

\* A titlecase sample and a target with a capital after its first character
C4_Witness ==
    /\ op = "_match_case_like"
    /\ StrictTitle(sample)
    /\ \E i \in 2..Len(target) : IsUpperCh(target[i])

-----------------------------------------------------------------------------
(* C5: for a mixed-case sample (not fully upper-case, not strict           *)
(* titlecase, not fully lower-case) the case adapter returns the target    *)
(* unmodified.  Neither adapter has a failing path: every sample, the      *)
(* empty one included, gives a string.                                     *)

C5_MixedCase ==
    op \in CaseOps /\ MixedCase(sample) => ret = target

\* The same statement for preserve_case of asr_postprocess/utils.py alone
C5_MixedCase_preserve_case ==
    op = "preserve_case" /\ MixedCase(sample) => ret = target

\* A sample like "PriVet" with a lower-case target went through _match_case_like
C5_Witness ==
    /\ op = "_match_case_like"
    /\ sample = <<"A", "a", "B">>
    /\ target = <<"a", "a">>

-----------------------------------------------------------------------------
(* asr_postprocess: the spellchecker found by _try_load_spellchecker *)

RECURSIVE StrSplit(_)
\* str.split(): the maximal runs of non-whitespace characters
StrSplit(s) ==
    IF s = <<>> THEN <<>>
    ELSE IF Head(s) = " " THEN StrSplit(Tail(s))
    ELSE LET stops == {k \in 1..Len(s) : k = Len(s) \/ s[k + 1] = " "}
             e == CHOOSE k \in stops : \A j \in stops : k <= j
         IN  <<SubSeq(s, 1, e)>> \o StrSplit(SubSeq(s, e + 1, Len(s)))

RECURSIVE JoinSpace(_)
\* " ".join(words)
JoinSpace(words) ==
    IF words = <<>> THEN <<>>
    ELSE IF Len(words) = 1 THEN words[1]
    ELSE words[1] \o <<" ">> \o JoinSpace(Tail(words))

\* correct(text) of the symspellpy branch: the SymSpell object is created per
\* call with no dictionary loaded, so lookup(..., include_unknown=True) gives
\* back the word itself
symspell_correct(s) ==
    LET words == StrSplit(s)
    IN  JoinSpace([i \in 1..Len(words) |-> words[i]])

-----------------------------------------------------------------------------
(* asr_postprocess/utils.py rerank_with_language_model *)

RECURSIVE InsertByScore(_, _)
\* Insert c after every item whose score is >= its own (a stable descending sort)
InsertByScore(sorted, c) ==
    IF sorted = <<>> THEN <<c>>
    ELSE IF Head(sorted)[2] >= c[2] THEN <<Head(sorted)>> \o InsertByScore(Tail(sorted), c)
    ELSE <<c>> \o sorted

\* Variant: the candidates stay in the order the producer gave them
SortedByScore_Unsorted(cands) == cands

RECURSIVE SortedByScore(_)
\* sorted(candidates, key=lambda x: x[1], reverse=True)
SortedByScore(cands) ==
    IF cands = <<>> THEN <<>>
    ELSE InsertByScore(SortedByScore(SubSeq(cands, 1, Len(cands) - 1)), cands[Len(cands)])

\* score_with_lm_fn(cand): [raises |-> TRUE] or [raises |-> FALSE, value |-> s];
\* a candidate the function has no score for makes it raise
ScoreOf(fn, cand) ==
    IF HasKey(fn.scores, cand) THEN DictGet(fn.scores, cand) ELSE [raises |-> TRUE, value |-> 0]

RECURSIVE ScoreLoop_LastWins(_, _, _, _, _)
\* Variant: a candidate whose score equals the best so far replaces it
ScoreLoop_LastWins(cands, fn, best_text, hasBest, best_score) ==
    IF cands = <<>> THEN best_text
    ELSE LET sc == ScoreOf(fn, Head(cands)[1])
         IN  IF ~sc.raises /\ (~hasBest \/ sc.value >= best_score)
             THEN ScoreLoop_LastWins(Tail(cands), fn, Head(cands)[1], TRUE, sc.value)
             ELSE ScoreLoop_LastWins(Tail(cands), fn, best_text, hasBest, best_score)

RECURSIVE ScoreLoop(_, _, _, _, _)
\* The loop of lines 101-108; hasBest is FALSE while best_score is -inf
ScoreLoop(cands, fn, best_text, hasBest, best_score) ==
    IF cands = <<>> THEN best_text
    ELSE LET sc == ScoreOf(fn, Head(cands)[1])
         IN  IF ~sc.raises /\ (~hasBest \/ sc.value > best_score)
             THEN ScoreLoop(Tail(cands), fn, Head(cands)[1], TRUE, sc.value)
             ELSE ScoreLoop(Tail(cands), fn, best_text, hasBest, best_score)

top_k == 3

rerank_with_language_model(s, generate, score_fn) ==
    IF generate.kind = "raises" THEN s
    ELSE IF generate.cands = <<>> THEN s
    ELSE LET sorted == SortedByScore(generate.cands)
             cands == SubSeq(sorted, 1, Min(top_k, Len(sorted)))
         IN  IF score_fn.kind = "none" THEN cands[1][1]
             ELSE ScoreLoop(cands, score_fn, s, FALSE, 0)

\* What the rerank step of a pipeline invokes: the candidate generator when
\* one is given (line 108 of asr_postprocess/ru.py), then the score function
\* when one is given and there are candidates to score (utils.py 101-103)
RerankStages(generate, score_fn) ==
    IF generate.kind = "none" THEN <<>>
    ELSE IF generate.kind = "raises" \/ generate.cands = <<>> \/ score_fn.kind = "none"
    THEN <<"generate">>
    ELSE <<"generate", "rerank">>

-----------------------------------------------------------------------------
(* asr_postprocess: postprocess_text_ru / postprocess_text_kk *)

\* Most words of an enumerated pipeline input
MaxWords == 2

AsrWords == {slavo, Slavo, kanewna, bugyn, <<"a">>}
Separators == {<<" ">>, <<",", " ", " ">>}

RECURSIVE JoinWith(_, _)
JoinWith(words, sep) ==
    IF words = <<>> THEN <<>>
    ELSE IF Len(words) = 1 THEN words[1]
    ELSE words[1] \o sep \o JoinWith(Tail(words), sep)

WordTexts(words, n) ==
    {JoinWith(ws, sep) : ws \in UNION {[1..k -> words] : k \in 0..n}, sep \in Separators}

None == [given |-> FALSE, items |-> <<>>]
Given(d) == [given |-> TRUE, items |-> d]

\* None, {}, an overridden default key, the same key with a capital, a
\* Kazakh default key, a key no default has
Customs ==
    { None,
      Given(<<>>),
      Given(<<<<slavo, <<"a">>>>>>),
      Given(<<<<Slavo, <<"b">>>>>>),
      Given(<<<<bugyn, <<"a">>>>>>),
      Given(<<<< <<"a">>, slovo >>>>) }

NoGen == [kind |-> "none", cands |-> <<>>]
NoScorer == [kind |-> "none", scores |-> <<>>]
Scored(v) == [raises |-> FALSE, value |-> v]

\* (lm_generate_candidates_fn, lm_score_fn): absent; a producer that raises; a
\* producer of two candidates with prior scores, alone and with a score function
LmArgs ==
    { <<NoGen, NoScorer>>,
      <<[kind |-> "raises", cands |-> <<>>], NoScorer>>,
      <<[kind |-> "returns", cands |-> <<<<slavo, 1>>, <<slovo, 2>>>>], NoScorer>>,
      <<[kind |-> "returns", cands |-> <<<<slavo, 1>>, <<slovo, 2>>>>],
        [kind |-> "fn", scores |-> <<<<slavo, Scored(5)>>, <<slovo, Scored(3)>>>>]>> }

\* (enable_spellcheck, what is installed)
SpellArgs == {<<FALSE, "none">>, <<TRUE, "none">>, <<TRUE, "symspellpy">>}

FnIdle ==
    /\ op = "none"
    /\ table = <<>>
    /\ CaseIdle
    /\ ret = <<>>
    /\ ret2 = <<>>
    /\ calls = 0
    /\ stages = <<>>
    /\ tables = tablesAtImport
    /\ lim = 0

InitAsr ==
    /\ FnIdle
    /\ text \in WordTexts(AsrWords, MaxWords)
    /\ lang \in {"ru", "kk"}
    /\ custom \in Customs
    /\ \E sa \in SpellArgs : enable_spellcheck = sa[1] /\ spellchecker = sa[2]
    /\ \E lm \in LmArgs : gen = lm[1] /\ scorer = lm[2]
    /\ pc = "start"
    /\ replacements = <<>>
    /\ out = <<>>
    /\ result = <<>>
    /\ PpIdle

\* if not text: return text
AsrEmpty ==
    /\ UNCHANGED <<stages, tables>>
    /\ pc = "start"
    /\ text = <<>>
    /\ pc' = "done"
    /\ result' = text
    /\ UNCHANGED <<fnVars, ppVars, lang, custom, enable_spellcheck, spellchecker, gen, scorer,
                   replacements, out>>

\* Lines 90-94: merge the caller's table over the defaults, then replace
AsrReplace ==
    /\ stages' = Append(stages, "replace")
    /\ pc = "start"
    /\ text # <<>>
    /\ LET merged == IF custom.given
                     THEN DictUpdate(tables.defaults[lang], custom.items)
                     ELSE tables.defaults[lang]
       IN  /\ replacements' = merged
           /\ out' = apply_replacements(text, merged)
           /\ tables' = [tables EXCEPT
                             !.defaults[lang] = DefaultsAfterMerge(tables.defaults[lang], merged)]
    /\ pc' = "replaced"
    /\ UNCHANGED <<fnVars, ppVars, lang, custom, enable_spellcheck, spellchecker, gen, scorer,
                   result>>

\* Lines 97-103: the spellcheck step
AsrSpellcheck ==
    /\ UNCHANGED tables
    /\ stages' = IF enable_spellcheck /\ spellchecker = "symspellpy"
                  THEN Append(stages, "correct")
                  ELSE stages
    /\ pc = "replaced"
    /\ out' = IF enable_spellcheck /\ spellchecker = "symspellpy"
              THEN symspell_correct(out)
              ELSE out
    /\ pc' = "spellchecked"
    /\ UNCHANGED <<fnVars, ppVars, lang, custom, enable_spellcheck, spellchecker, gen, scorer,
                   replacements, result>>

\* Lines 106-109: the optional rerank, and the return
AsrRerank ==
    /\ UNCHANGED tables
    /\ stages' = stages \o RerankStages(gen, scorer)
    /\ pc = "spellchecked"
    /\ LET final == IF gen.kind # "none"
                    THEN rerank_with_language_model(out, gen, scorer)
                    ELSE out
       IN  out' = final /\ result' = final
    /\ pc' = "done"
    /\ UNCHANGED <<fnVars, ppVars, lang, custom, enable_spellcheck, spellchecker, gen, scorer,
                   replacements>>

NextAsr == AsrEmpty \/ AsrReplace \/ AsrSpellcheck \/ AsrRerank

SpecAsr == InitAsr /\ [][NextAsr]_vars

-----------------------------------------------------------------------------
(* C7: the table a call applies is the language defaults with the caller's *)
(* custom_replacements merged over them: a word equal to a caller's key    *)
(* (letter case ignored, so also when a default key differs from it in     *)
(* case only) is replaced by the caller's value, and a word equal to a     *)
(* default key the caller did not give is replaced by the default value.   *)

MergedPiece(t, cust, defaults) ==
    IF is_word(t) /\ IsKeyToken(t, cust) THEN preserve_case(t, ValueFor(t, cust))
    ELSE IF is_word(t) /\ IsKeyToken(t, defaults) THEN preserve_case(t, ValueFor(t, defaults))
    ELSE t

-----------------------------------------------------------------------------
(* C8: with custom_replacements = {} the default table is disabled: no     *)
(* default entry is applied, the dictionary step returns the text as is.   *)

C8_EmptyCustomDisablesDefaults ==
    pc = "replaced" /\ custom = Given(<<>>) => out = text

\* A call with custom_replacements = {} on a text holding a default key
C8_Witness ==
    /\ pc = "replaced"
    /\ custom = Given(<<>>)
    /\ lang = "ru"
    /\ text = slavo

-----------------------------------------------------------------------------
(* symspellpy, as the calls of postprocess/ru.py use it *)

Min3(a, b, c) == Min(a, Min(b, c))

RECURSIVE DistRow(_, _, _, _, _, _)
\* Row i of the edit distance table of a and b (Damerau, optimal string
\* alignment), built left to right: cur holds the cells 0..j-1
DistRow(a, b, i, prev2, prev, cur) ==
    LET j == Len(cur)
    IN  IF j > Len(b) THEN cur
        ELSE LET cost == IF a[i] = b[j] THEN 0 ELSE 1
                 plain == Min3(prev[j + 1] + 1, cur[j] + 1, prev[j] + cost)
                 swap == IF i > 1 /\ j > 1 /\ a[i] = b[j - 1] /\ a[i - 1] = b[j]
                         THEN Min(plain, prev2[j - 1] + 1)
                         ELSE plain
             IN  DistRow(a, b, i, prev2, prev, Append(cur, swap))

RECURSIVE DistRows(_, _, _, _, _)
DistRows(a, b, i, prev2, prev) ==
    IF i > Len(a) THEN prev[Len(b) + 1]
    ELSE DistRows(a, b, i + 1, prev, DistRow(a, b, i, prev2, prev, <<i>>))

\* The edit distance of two strings
EditDistance(a, b) ==
    LET row0 == [j \in 1..(Len(b) + 1) |-> j - 1]
    IN  DistRows(a, b, 1, row0, row0)

\* sym.lookup(word, Verbosity.TOP, max_edit_distance=d, include_unknown=True)
\* as the list of the terms of its suggestions: the closest term within d,
\* the most frequent one among the closest, or the word itself when no term
\* is within d.  [raises |-> TRUE]: ValueError, d is larger than the distance
\* the index was built with.
Lookup(index, word, d) ==
    IF d > index.max_dictionary_edit_distance THEN [raises |-> TRUE, terms |-> <<>>]
    ELSE LET near == {i \in 1..Len(index.terms) : EditDistance(word, index.terms[i][1]) <= d}
             Better(i, j) ==
                 LET di == EditDistance(word, index.terms[i][1])
                     dj == EditDistance(word, index.terms[j][1])
                 IN  \/ di < dj
                     \/ di = dj /\ index.terms[i][2] > index.terms[j][2]
                     \/ di = dj /\ index.terms[i][2] = index.terms[j][2] /\ i <= j
         IN  IF near = {} THEN [raises |-> FALSE, terms |-> <<word>>]
             ELSE [raises |-> FALSE,
                   terms |-> <<index.terms[CHOOSE i \in near : \A j \in near : Better(i, j)][1]>>]

-----------------------------------------------------------------------------
(* postprocess/ru.py, postprocess/kk.py *)

\* Variant: the loader reads the dictionary at every call, whatever is cached
_load_symspell_EveryCall(cache, lib, resource, d) ==
    IF ~lib \/ resource.state \in {"missing", "unloadable"}
    THEN [raises |-> FALSE, sym |-> NoIndex, cache |-> cache]
    ELSE IF resource.state = "unreadable" THEN [raises |-> TRUE, sym |-> NoIndex, cache |-> cache]
    ELSE LET built == [loaded |-> TRUE, max_dictionary_edit_distance |-> d,
                       terms |-> resource.terms]
         IN  [raises |-> FALSE, sym |-> built, cache |-> built]

\* _load_symspell_ru / _load_symspell_kk: the value returned and the new
\* value of the module global
_load_symspell(cache, lib, resource, d) ==
    IF cache.loaded THEN [raises |-> FALSE, sym |-> cache, cache |-> cache]
    ELSE IF ~lib THEN [raises |-> FALSE, sym |-> NoIndex, cache |-> cache]
    ELSE IF resource.state = "missing" THEN [raises |-> FALSE, sym |-> NoIndex, cache |-> cache]
    ELSE IF resource.state = "unloadable" THEN [raises |-> FALSE, sym |-> NoIndex, cache |-> cache]
    ELSE IF resource.state = "unreadable" THEN [raises |-> TRUE, sym |-> NoIndex, cache |-> cache]
    ELSE LET built == [loaded |-> TRUE, max_dictionary_edit_distance |-> d,
                       terms |-> resource.terms]
         IN  [raises |-> FALSE, sym |-> built, cache |-> built]

RECURSIVE Unique(_)
\* The "seen" loops: first occurrences, in order
Unique(items) ==
    IF items = <<>> THEN <<>>
    ELSE LET init == Unique(SubSeq(items, 1, Len(items) - 1))
             last == items[Len(items)]
         IN  IF last \in Range(init) THEN init ELSE Append(init, last)

_symspell_candidates(word, index, d) ==
    LET got == Lookup(index, StrLower(word), d)
        uniq == Unique(got.terms)
    IN  [raises |-> got.raises, terms |-> SubSeq(uniq, 1, Min(3, Len(uniq)))]

\* chars[start:end] = list(replacement)
Splice(chars, start, end, replacement) ==
    LET a == Min(start, Len(chars))
        b == IF Min(end, Len(chars)) < a THEN a ELSE Min(end, Len(chars))
    IN  SubSeq(chars, 1, a) \o replacement \o SubSeq(chars, b + 1, Len(chars))

min_len == 3

RECURSIVE CorrectLoop(_, _, _, _, _, _, _)
\* The loop of _correct_with_symspell over (token, span), from token idx on
\* (idx counts from 0); spans are those of the text before any replacement
CorrectLoop(s, spans, idx, chars, amb, index, d) ==
    IF idx >= Len(spans) THEN [raises |-> FALSE, text |-> chars, ambiguous |-> amb]
    ELSE LET start == spans[idx + 1][1]
             end == spans[idx + 1][2]
             token == Slice(s, start, end)
         IN  IF Len(token) < min_len
             THEN CorrectLoop(s, spans, idx + 1, chars, amb, index, d)
             ELSE LET cands == _symspell_candidates(token, index, d)
                  IN  IF cands.raises THEN [raises |-> TRUE, text |-> chars, ambiguous |-> amb]
                      ELSE IF cands.terms = <<>>
                      THEN CorrectLoop(s, spans, idx + 1, chars, amb, index, d)
                      ELSE LET best == cands.terms[1]
                           IN  IF StrLower(best) # StrLower(token)
                               THEN CorrectLoop(s, spans, idx + 1,
                                        Splice(chars, start, end, _match_case_like(token, best)),
                                        Append(amb, <<idx, cands.terms>>), index, d)
                               ELSE CorrectLoop(s, spans, idx + 1, chars, amb, index, d)

_correct_with_symspell(s, index, d) ==
    LET spans == FindIter(s, 0, "L")
    IN  IF spans = <<>> THEN [raises |-> FALSE, text |-> s, ambiguous |-> <<>>]
        ELSE CorrectLoop(s, spans, 0, s, <<>>, index, d)

limit == 5

RECURSIVE VariantLoop(_, _, _, _, _, _)
\* The loop of _build_sentence_candidates over ambiguous[:3]; cap is the
\* limit argument
VariantLoop(base_text, s, spans, amb, variants, cap) ==
    IF amb = <<>> THEN variants
    ELSE LET idx == Head(amb)[1]
             cands == Head(amb)[2]
         IN  IF Len(cands) < 2 THEN VariantLoop(base_text, s, spans, Tail(amb), variants, cap)
             ELSE LET start == spans[idx + 1][1]
                      end == spans[idx + 1][2]
                      alt == _match_case_like(Slice(s, start, end), cands[2])
                      more == Append(variants, Splice(base_text, start, end, alt))
                  IN  IF Len(more) >= cap THEN more
                      ELSE VariantLoop(base_text, s, spans, Tail(amb), more, cap)

\* s and spans: the text tokens_and_spans was taken from, and its spans
_build_sentence_candidates(base_text, s, spans, amb, cap) ==
    IF amb = <<>> THEN <<base_text>>
    ELSE Unique(VariantLoop(base_text, s, spans, SubSeq(amb, 1, Min(3, Len(amb))),
                            <<base_text>>, cap))

\* Lines 200-207: the text before correction goes first when it is not a
\* candidate yet, then duplicates are dropped
unique_candidates(s, cands) ==
    Unique(IF s \in Range(cands) THEN cands ELSE <<s>> \o cands)

\* Variant: the LM is asked whenever there is a choice
NeedsRerank_Always(enable, uniq) == Len(uniq) > 1

\* Line 213: whether the LM is asked
NeedsRerank(enable, uniq) == enable /\ Len(uniq) > 1

\* avg_nll of the model found: "likes_o" gives the lower loss to the text with
\* more letters o, "likes_a" to the text with more letters a
Count(s, c) == Cardinality({i \in 1..Len(s) : s[i] = c})
avg_nll(model, s) == IF model = "likes_o" THEN 0 - Count(s, "o") ELSE 0 - Count(s, "a")

RECURSIVE NllLoop(_, _, _, _)
NllLoop(model, cands, best_text, best_score) ==
    IF cands = <<>> THEN best_text
    ELSE LET score == avg_nll(model, Head(cands))
         IN  IF score < best_score
             THEN NllLoop(model, Tail(cands), Head(cands), score)
             ELSE NllLoop(model, Tail(cands), best_text, best_score)

\* postprocess/lm.py rank_by_causal_lm, with transformers importable
rank_by_causal_lm(cands, model) ==
    IF cands = <<>> THEN <<>>
    ELSE IF Len(cands) = 1 THEN cands[1]
    ELSE NllLoop(model, Tail(cands), cands[1], avg_nll(model, cands[1]))

-----------------------------------------------------------------------------
(* postprocess: postprocess_text_ru / postprocess_text_kk *)

pajdu == <<"p", "a", "j", "d", "u">>
Pajdu == <<"P", "a", "j", "d", "u">>
pojdu == <<"p", "o", "j", "d", "u">>
market == <<"m", "a", "r", "k", "e", "t">>
magazin == <<"m", "a", "g", "a", "z", "i", "n">>

\* "Ya pajdu v market"
ExampleSentence == <<"X", " ">> \o pajdu \o <<" ", "v", " ">> \o market
ExampleCorrected == <<"X", " ">> \o pojdu \o <<" ", "v", " ">> \o market

\* Texts of a call: words the index corrects and keys of the common tables,
\* joined by the separators, and the example sentences
PipeWords == {pajdu, slavo}
PipeExamples == {ExampleSentence, Pajdu, bugyn \o <<" ">> \o pajdu, market}
PipeTexts == WordTexts(PipeWords, MaxWords) \cup PipeExamples

\* The frequency dictionary of the example: "term count" per line
ExampleTerms == <<<<pojdu, 100>>, <<magazin, 50>>>>

\* What the dictionary path of a call resolves to: no such file, a file
\* load_dictionary reports as not loaded, a path that exists and that open()
\* cannot read as text (a directory, bytes that do not decode), a file that
\* loads
Dictionaries ==
    { [state |-> "missing", terms |-> <<>>],
      [state |-> "unloadable", terms |-> <<>>],
      [state |-> "unreadable", terms |-> <<>>],
      [state |-> "ok", terms |-> ExampleTerms] }

EditDistances == {1, 2}

LanguageModels == {"absent", "load_raises", "likes_o", "likes_a"}

AsrIdle ==
    /\ custom = None
    /\ enable_spellcheck = FALSE
    /\ spellchecker = "none"
    /\ gen = NoGen
    /\ scorer = NoScorer
    /\ replacements = <<>>
    /\ out = <<>>

\* The arguments of one call
PpArgs(t, dict, d, enable) ==
    /\ t \in PipeTexts
    /\ dict \in Dictionaries
    /\ d \in EditDistances
    /\ enable \in BOOLEAN

InitPipe ==
    /\ FnIdle
    /\ AsrIdle
    /\ lang \in {"ru", "kk"}
    /\ SymSpell \in BOOLEAN
    /\ language_model \in LanguageModels
    /\ _SYM_SPELL = NoIndex
    /\ PpArgs(text, dictionary, max_edit_distance, enable_lm_rerank)
    /\ pc = "start"
    /\ result = <<>>
    /\ work = <<>>
    /\ sym = NoIndex
    /\ corrected = <<>>
    /\ ambiguous = <<>>
    /\ candidates = <<>>

ppFixed == <<text, op, table, sample, target, ret, ret2, calls, lim, lang, custom, enable_spellcheck, spellchecker, gen, scorer, replacements, out,
             SymSpell, language_model>>
\* Variant: the emptiness test comes after the common replacements
PpEmpty_AfterReplace ==
    /\ UNCHANGED <<stages, tables>>
    /\ pc = "start"
    /\ text = <<>>
    /\ work' = _replace_common_errors(text, CommonOf(lang))
    /\ pc' = "replaced"
    /\ UNCHANGED <<ppFixed, dictionary, max_edit_distance, enable_lm_rerank, _SYM_SPELL, result, sym,
                   corrected, ambiguous, candidates>>

\* if not text: return text
PpEmpty ==
    /\ UNCHANGED <<stages, tables>>
    /\ pc = "start"
    /\ text = <<>>
    /\ pc' = "done"
    /\ result' = text
    /\ UNCHANGED <<ppFixed, dictionary, max_edit_distance, enable_lm_rerank, _SYM_SPELL, work, sym,
                   corrected, ambiguous, candidates>>

\* 1) text = _replace_common_errors(text, _COMMON_REPLACEMENTS)
PpReplace ==
    /\ UNCHANGED tables
    /\ stages' = Append(stages, "replace")
    /\ pc = "start"
    /\ text # <<>>
    /\ work' = _replace_common_errors(text, tables.common[lang])
    /\ pc' = "replaced"
    /\ UNCHANGED <<ppFixed, dictionary, max_edit_distance, enable_lm_rerank, _SYM_SPELL, result, sym,
                   corrected, ambiguous, candidates>>

\* sym = _load_symspell(dictionary_path, max_edit_distance)
PpLoad ==
    /\ UNCHANGED <<stages, tables>>
    /\ pc = "replaced"
    /\ LET got == _load_symspell(_SYM_SPELL, SymSpell, dictionary, max_edit_distance)
       IN  /\ sym' = got.sym
           /\ _SYM_SPELL' = got.cache
           /\ pc' = IF got.raises THEN "raised" ELSE "loaded"
    /\ UNCHANGED <<ppFixed, dictionary, max_edit_distance, enable_lm_rerank, result, work,
                   corrected, ambiguous, candidates>>

\* sym is not None: corrected, ambiguous = _correct_with_symspell(...);
\* a ValueError of lookup leaves the call
PpCorrect ==
    /\ UNCHANGED tables
    /\ stages' = Append(stages, "correct")
    /\ pc = "loaded"
    /\ sym.loaded
    /\ LET got == _correct_with_symspell(work, sym, max_edit_distance)
       IN  IF got.raises
           THEN pc' = "raised" /\ UNCHANGED <<corrected, ambiguous, candidates>>
           ELSE /\ pc' = "corrected"
                /\ corrected' = got.text
                /\ ambiguous' = got.ambiguous
                /\ candidates' = <<got.text>>
    /\ UNCHANGED <<ppFixed, dictionary, max_edit_distance, enable_lm_rerank, _SYM_SPELL, result, work,
                   sym>>

\* candidates.extend(_build_sentence_candidates(corrected, tokens_and_spans, ambiguous))
PpGenerate ==
    /\ UNCHANGED tables
    /\ stages' = Append(stages, "generate")
    /\ pc = "corrected"
    /\ candidates' = candidates \o
          _build_sentence_candidates(corrected, work, FindIter(work, 0, "L"), ambiguous,
                                     limit)
    /\ pc' = "generated"
    /\ UNCHANGED <<ppFixed, dictionary, max_edit_distance, enable_lm_rerank, _SYM_SPELL, result, work,
                   sym, corrected, ambiguous>>

\* sym is None: candidates.append(text)
PpNoIndex ==
    /\ UNCHANGED <<stages, tables>>
    /\ pc = "loaded"
    /\ ~sym.loaded
    /\ candidates' = <<work>>
    /\ pc' = "generated"
    /\ UNCHANGED <<ppFixed, dictionary, max_edit_distance, enable_lm_rerank, _SYM_SPELL, result, work,
                   sym, corrected, ambiguous>>

\* Lines 199-223: deduplicate, rerank when enabled, return
PpFinish ==
    /\ UNCHANGED tables
    /\ stages' = IF /\ NeedsRerank(enable_lm_rerank, unique_candidates(work, candidates))
                     /\ language_model # "absent"
                  THEN Append(stages, "rerank")
                  ELSE stages
    /\ pc = "generated"
    /\ LET uniq == unique_candidates(work, candidates)
       IN  /\ candidates' = uniq
           /\ IF NeedsRerank(enable_lm_rerank, uniq)
              THEN IF language_model = "absent"
                   THEN pc' = "done" /\ result' = uniq[1]
                   ELSE IF language_model = "load_raises"
                   THEN pc' = "raised" /\ UNCHANGED result
                   ELSE pc' = "done" /\ result' = rank_by_causal_lm(uniq, language_model)
              ELSE pc' = "done" /\ result' = uniq[1]
    /\ UNCHANGED <<ppFixed, dictionary, max_edit_distance, enable_lm_rerank, _SYM_SPELL, work, sym,
                   corrected, ambiguous>>

\* The call has returned or raised: its arguments and locals are gone, the
\* module global stays as the call left it
PpReturn ==
    /\ UNCHANGED tables
    /\ stages' = <<>>
    /\ pc \in {"done", "raised"}
    /\ pc' = "idle"
    /\ text' = <<>>
    /\ dictionary' = [state |-> "missing", terms |-> <<>>]
    /\ max_edit_distance' = 2
    /\ enable_lm_rerank' = FALSE
    /\ result' = <<>>
    /\ work' = <<>>
    /\ sym' = NoIndex
    /\ corrected' = <<>>
    /\ ambiguous' = <<>>
    /\ candidates' = <<>>
    /\ UNCHANGED <<op, table, sample, target, ret, ret2, calls, lim, lang, custom, enable_spellcheck,
                   spellchecker, gen, scorer, replacements, out, SymSpell, language_model,
                   _SYM_SPELL>>

\* The next call of the same function in the same process
PpNewCall ==
    /\ UNCHANGED <<stages, tables>>
    /\ pc = "idle"
    /\ PpArgs(text', dictionary', max_edit_distance', enable_lm_rerank')
    /\ pc' = "start"
    /\ UNCHANGED <<op, table, sample, target, ret, ret2, calls, lim, lang, custom, enable_spellcheck,
                   spellchecker, gen, scorer, replacements, out, SymSpell, language_model,
                   _SYM_SPELL, result, work, sym, corrected, ambiguous, candidates>>

NextPipe ==
    \/ PpEmpty
    \/ PpReplace
    \/ PpLoad
    \/ PpCorrect
    \/ PpGenerate
    \/ PpNoIndex
    \/ PpFinish
    \/ PpReturn
    \/ PpNewCall

SpecPipe == InitPipe /\ [][NextPipe]_vars

-----------------------------------------------------------------------------
(* C9: when no term index is available (symspellpy absent, or the          *)
(* dictionary missing or failing to load, and nothing cached by an earlier *)
(* call), the call raises nothing and returns exactly the text after the   *)
(* common replacements, and no ambiguity is recorded.                      *)

\* The call has been through the loader, or has ended
AfterLoad == pc \in {"loaded", "corrected", "generated", "done", "raised"}

C9_NoIndexPassThrough ==
    AfterLoad /\ ~sym.loaded =>
        /\ pc # "raised"
        /\ work = _replace_common_errors(text, CommonOf(lang))
        /\ ambiguous = <<>>
        /\ pc = "done" => result = work

\* The same statement for the calls whose loader returned None
C9_NoIndexPassThrough_LoaderReturned ==
    AfterLoad /\ ~sym.loaded /\ dictionary.state # "unreadable" =>
        /\ pc # "raised"
        /\ work = _replace_common_errors(text, CommonOf(lang))
        /\ ambiguous = <<>>
        /\ pc = "done" => result = work

\* symspellpy was present and nothing cached, the dictionary path existed
\* and could not be read, and the text held a key of the common table
C9_Witness ==
    /\ pc = "raised"
    /\ ~sym.loaded
    /\ SymSpell
    /\ dictionary.state = "unreadable"
    /\ text = slavo \o <<" ">> \o pajdu

-----------------------------------------------------------------------------
(* C10: with an index and LM rerank disabled, the call returns the         *)
(* dictionary-and-fuzzy-corrected text: "Ya pajdu v market" with an index  *)
(* holding "pojdu" returns "Ya pojdu v market".                            *)

C10_ReturnsCorrectedText ==
    pc = "done" /\ sym.loaded /\ ~enable_lm_rerank => result = corrected

\* The example sentence was corrected by the fuzzy corrector, rerank disabled
C10_Witness ==
    /\ pc = "done"
    /\ sym.loaded
    /\ ~enable_lm_rerank
    /\ text = ExampleSentence
    /\ corrected = ExampleCorrected

-----------------------------------------------------------------------------
(* postprocess: the index lookup, the fuzzy corrector and the candidate    *)
(* generator, each called on its own                                       *)

\* Most tokens of a text handed to the candidate generator
MaxTokens == 4

IndexOver(terms, dmax) ==
    [loaded |-> TRUE, max_dictionary_edit_distance |-> dmax, terms |-> terms]

pajd == <<"p", "a", "j", "d">>

\* Words near "pojdu" (distance 1, and distance 2 with one letter less), a
\* word far from every term, a word shorter than min_len
FuzzyWords == {pajdu, Pajdu, pajd, market, <<"p", "o">>}

\* A far word between a word that grows by two letters and a near word
FuzzyExamples == {<<"p", "o", "j", " ">> \o market \o <<" ">> \o pajdu}
FuzzyTexts == WordTexts(FuzzyWords, MaxWords) \cup FuzzyExamples

\* One term, the example dictionary, two terms at the same distance of "pajdu"
TermLists ==
    { <<<<pojdu, 100>>>>,
      ExampleTerms,
      <<<<pojdu, 1>>, <<<<"p", "a", "j", "d", "a">>, 5>>>> }

Indexes == {IndexOver(terms, dmax) : terms \in TermLists, dmax \in EditDistances}

\* k tokens "ab" separated by blanks
RECURSIVE TokensText(_)
TokensText(k) ==
    IF k = 0 THEN <<>>
    ELSE IF k = 1 THEN <<"a", "b">>
    ELSE <<"a", "b", " ">> \o TokensText(k - 1)

\* The candidate lists of an ambiguous token: one candidate, two candidates,
\* a second candidate equal to the first, a first candidate longer than the
\* token
CandidateLists ==
    { <<<<"c", "b">>>>,
      <<<<"c", "b">>, <<"d", "b">>>>,
      <<<<"c", "b">>, <<"c", "b">>>>,
      <<<<"c", "b", "x">>, <<"d", "b">>>> }

RECURSIVE AmbiguityLists(_, _)
\* The ambiguity lists over the tokens idx..k-1: token indexes ascending
AmbiguityLists(idx, k) ==
    IF idx >= k THEN {<<>>}
    ELSE LET rest == AmbiguityLists(idx + 1, k)
         IN  rest \cup {<<<<idx, c>>>> \o r : c \in CandidateLists, r \in rest}

RECURSIVE BaseText(_, _)
\* The text of k tokens with the first candidate in the place of every
\* ambiguous token
BaseText(k, amb) ==
    IF amb = <<>> THEN TokensText(k)
    ELSE LET start == 3 * Head(amb)[1]
         IN  Splice(BaseText(k, Tail(amb)), start, start + 2, Head(amb)[2][1])

Limits == 1..limit

GenIdle ==
    /\ table = <<>>
    /\ CaseIdle
    /\ ret = <<>>
    /\ ret2 = <<>>
    /\ calls = 0
    /\ stages = <<>>
    /\ tables = tablesAtImport
    /\ lang = "ru"
    /\ AsrIdle
    /\ pc = "idle"
    /\ result = <<>>
    /\ SymSpell = TRUE
    /\ language_model = "absent"
    /\ _SYM_SPELL = NoIndex
    /\ dictionary = [state |-> "missing", terms |-> <<>>]
    /\ enable_lm_rerank = FALSE
    /\ work = <<>>
    /\ candidates = <<>>

\* The arguments of a lookup or of the corrector, or those of the generator
InitGen ==
    /\ GenIdle
    /\ op = "none"
    /\ \/ /\ text \in FuzzyTexts
          /\ sym \in Indexes
          /\ max_edit_distance \in EditDistances
          /\ corrected = <<>>
          /\ ambiguous = <<>>
          /\ lim = 0
       \/ /\ \E k \in 0..MaxTokens :
                /\ text = TokensText(k)
                /\ ambiguous \in AmbiguityLists(0, k)
                /\ corrected = BaseText(k, ambiguous)
          /\ lim \in Limits
          /\ sym = NoIndex
          /\ max_edit_distance = 2

genFixed == <<text, table, sample, target, ret2, calls, lim, asrVars, SymSpell, language_model,
              _SYM_SPELL, dictionary, max_edit_distance, enable_lm_rerank, work, sym, corrected,
              ambiguous, candidates>>

\* _symspell_candidates(word, sym, max_edit_distance), the text being one word
SymspellCandidates ==
    /\ UNCHANGED <<stages, tables>>
    /\ op = "none"
    /\ sym.loaded
    /\ FindIter(text, 0, "L") = <<<<0, Len(text)>>>>
    /\ op' = "_symspell_candidates"
    /\ ret' = _symspell_candidates(text, sym, max_edit_distance)
    /\ UNCHANGED genFixed

\* _correct_with_symspell(text, sym, max_edit_distance)
CorrectWithSymspell ==
    /\ UNCHANGED <<stages, tables>>
    /\ op = "none"
    /\ sym.loaded
    /\ op' = "_correct_with_symspell"
    /\ ret' = _correct_with_symspell(text, sym, max_edit_distance)
    /\ UNCHANGED genFixed

\* _build_sentence_candidates(base_text, tokens_and_spans, ambiguous, limit)
BuildSentenceCandidates ==
    /\ UNCHANGED <<stages, tables>>
    /\ op = "none"
    /\ lim > 0
    /\ op' = "_build_sentence_candidates"
    /\ ret' = _build_sentence_candidates(corrected, text, FindIter(text, 0, "L"), ambiguous, lim)
    /\ UNCHANGED genFixed

NextGen == SymspellCandidates \/ CorrectWithSymspell \/ BuildSentenceCandidates

SpecGen == InitGen /\ [][NextGen]_vars

-----------------------------------------------------------------------------
(* C11: for every base text, every ambiguity list and every limit >= 1,    *)
(* the candidate generator returns at least 1 and at most limit variants.  *)

C11_CandidateCap ==
    op = "_build_sentence_candidates" => Len(ret) >= 1 /\ Len(ret) <= lim

\* The same statement for the limits from 2 on
C11_CandidateCap_From2 ==
    op = "_build_sentence_candidates" /\ lim >= 2 => Len(ret) >= 1 /\ Len(ret) <= lim

\* Limit 1 and an ambiguous token with a second candidate
C11_Witness ==
    /\ op = "_build_sentence_candidates"
    /\ lim = 1
    /\ \E i \in 1..Len(ambiguous) : Len(Unique(ambiguous[i][2])) = 2

-----------------------------------------------------------------------------
(* C12: the candidate list is never empty and its first element is the     *)
(* dictionary-and-fuzzy-corrected text (base_text), in the candidate       *)
(* generator's result and in the deduplicated candidate list the pipeline  *)
(* ranks or takes its answer from.                                         *)

\* The pipeline's list, after the deduplication of lines 199-207
C12_BaseTextFirst ==
    pc = "done" /\ text # <<>> =>
        /\ candidates # <<>>
        /\ candidates[1] = (IF sym.loaded THEN corrected ELSE work)

\* The generator's result on its own
C12_BaseTextFirst_Generator ==
    op = "_build_sentence_candidates" => ret # <<>> /\ ret[1] = corrected

\* The fuzzy corrector changed the text and the call returned
C12_Witness ==
    /\ pc = "done"
    /\ sym.loaded
    /\ corrected # work
    /\ Len(candidates) = 2

-----------------------------------------------------------------------------
(* The rerankers, each called on its own: rerank_with_language_model of    *)
(* asr_postprocess/utils.py and rank_by_causal_lm of postprocess/lm.py     *)

\* Most candidates of a list handed to a reranker
MaxCands == 4

CandNames == <<"a", "b", "c", "d", "e", "f">>
Cand(i) == <<CandNames[i]>>

\* What score_with_lm_fn does for one candidate: raise, or return a score
ScoreOutcomes == {[raises |-> TRUE, value |-> 0], Scored(1), Scored(2)}

\* generate_candidates_fn: it raises, or returns n candidates with prior scores
Producers ==
    {[kind |-> "raises", cands |-> <<>>]}
    \cup UNION {{[kind |-> "returns", cands |-> [i \in 1..n |-> <<Cand(i), pr[i]>>]] :
                    pr \in [1..n -> 1..2]} : n \in 0..MaxCands}

\* score_with_lm_fn for the candidates of a producer: None, or a function
ScorersFor(g) ==
    {NoScorer}
    \cup {[kind |-> "fn", scores |-> [i \in 1..Len(g.cands) |-> <<g.cands[i][1], sc[i]>>]] :
             sc \in [1..Len(g.cands) -> ScoreOutcomes]}

\* The text is one of the candidates, or is not
RerankTexts == {<<"x">>, <<"a">>}

\* Candidate sentences for rank_by_causal_lm, told apart by their letters a and o
LmSentences == {<<"a">>, <<"o">>, <<"a", "o">>, <<"o", "a">>}
LmCandidates == UNION {[1..n -> LmSentences] : n \in 0..MaxCands}

\* "nll_raises": the model loads and avg_nll raises
RankModels == LanguageModels \cup {"nll_raises"}

RerankIdle ==
    /\ table = <<>>
    /\ CaseIdle
    /\ ret = <<>>
    /\ ret2 = <<>>
    /\ calls = 0
    /\ stages = <<>>
    /\ tables = tablesAtImport
    /\ lim = 0
    /\ lang = "ru"
    /\ custom = None
    /\ enable_spellcheck = FALSE
    /\ spellchecker = "none"
    /\ replacements = <<>>
    /\ out = <<>>
    /\ pc = "idle"
    /\ result = <<>>
    /\ SymSpell = FALSE
    /\ _SYM_SPELL = NoIndex
    /\ dictionary = [state |-> "missing", terms |-> <<>>]
    /\ max_edit_distance = 2
    /\ enable_lm_rerank = FALSE
    /\ work = <<>>
    /\ sym = NoIndex
    /\ corrected = <<>>
    /\ ambiguous = <<>>

\* The arguments of rerank_with_language_model, or those of rank_by_causal_lm
InitRerank ==
    /\ RerankIdle
    /\ op = "none"
    /\ \/ /\ text \in RerankTexts
          /\ gen \in Producers
          /\ scorer \in ScorersFor(gen)
          /\ candidates = <<>>
          /\ language_model = "absent"
       \/ /\ text = <<>>
          /\ gen = NoGen
          /\ scorer = NoScorer
          /\ candidates \in LmCandidates
          /\ language_model \in RankModels

rerankFixed == <<text, table, sample, target, ret2, calls, lim, asrVars, ppVars>>

\* rerank_with_language_model(text, generate_candidates_fn, score_with_lm_fn)
Rerank ==
    /\ UNCHANGED <<stages, tables>>
    /\ op = "none"
    /\ gen.kind # "none"
    /\ op' = "rerank_with_language_model"
    /\ ret' = rerank_with_language_model(text, gen, scorer)
    /\ UNCHANGED rerankFixed

\* rank_by_causal_lm(candidates, model_name): the value returned, or the
\* exception of from_pretrained or of avg_nll, which nothing catches
RankByCausalLm ==
    /\ UNCHANGED <<stages, tables>>
    /\ op = "none"
    /\ gen.kind = "none"
    /\ op' = "rank_by_causal_lm"
    /\ ret' = IF candidates = <<>> THEN [raises |-> FALSE, value |-> <<>>]
              ELSE IF Len(candidates) = 1 THEN [raises |-> FALSE, value |-> candidates[1]]
              ELSE IF language_model = "absent" THEN [raises |-> FALSE, value |-> candidates[1]]
              ELSE IF language_model \in {"load_raises", "nll_raises"}
              THEN [raises |-> TRUE, value |-> <<>>]
              ELSE [raises |-> FALSE, value |-> rank_by_causal_lm(candidates, language_model)]
    /\ UNCHANGED rerankFixed

NextRerank == Rerank \/ RankByCausalLm

SpecRerank == InitRerank /\ [][NextRerank]_vars

-----------------------------------------------------------------------------
(* C13: when no score function is supplied, rerank returns the first       *)
(* candidate of the list it was given, for every non-empty candidate list, *)
(* regardless of the prior scores attached to the candidates.              *)

\* rerank_with_language_model was called and the producer returned candidates
RerankCalled ==
    /\ op = "rerank_with_language_model"
    /\ gen.kind = "returns"
    /\ gen.cands # <<>>

\* As claimed: the first candidate of the list
C13_FirstCandidate ==
    RerankCalled /\ scorer.kind = "none" => ret = gen.cands[1][1]

\* The index of the candidate of highest prior score, the earliest among equals
BestByPrior(cands) ==
    CHOOSE i \in 1..Len(cands) :
        \A j \in 1..Len(cands) :
            cands[j][2] < cands[i][2] \/ (cands[j][2] = cands[i][2] /\ i <= j)

\* Amended: the candidate of highest prior score, the earliest among equals
C13_BestPriorCandidate ==
    RerankCalled /\ scorer.kind = "none" => ret = gen.cands[BestByPrior(gen.cands)][1]

\* No score function, and the second candidate has the higher prior score
C13_Witness ==
    /\ RerankCalled
    /\ scorer.kind = "none"
    /\ Len(gen.cands) >= 2
    /\ gen.cands[2][2] > gen.cands[1][2]
    /\ ret = gen.cands[2][1]

-----------------------------------------------------------------------------
(* C14: when a score function is supplied, rerank scores every candidate   *)
(* of the list, however many there are, and returns a candidate whose      *)
(* score is the best of all of them (higher is better); among candidates   *)
(* sharing the best score the earliest in the candidate list is returned.  *)

\* What the score function does for candidate i of the producer's list
Outcome(i) == scorer.scores[i][2]
Prior(i) == gen.cands[i][2]

NoneRaises == \A i \in 1..Len(gen.cands) : ~Outcome(i).raises

\* As claimed, for a score function that raises for no candidate
C14_BestOfAll ==
    RerankCalled /\ scorer.kind = "fn" /\ NoneRaises =>
        \E i \in 1..Len(gen.cands) :
            /\ ret = gen.cands[i][1]
            /\ \A j \in 1..Len(gen.cands) :
                  \/ Outcome(j).value < Outcome(i).value
                  \/ Outcome(j).value = Outcome(i).value /\ i <= j

\* How many candidates come before candidate i by prior score, descending, the
\* earlier first among equals
PriorRank(i) ==
    Cardinality({j \in 1..Len(gen.cands) :
                    Prior(j) > Prior(i) \/ (Prior(j) = Prior(i) /\ j < i)})

\* The candidates that get a score: among the first three by prior score, and
\* the score function returns for them
ScoredOnes == {i \in 1..Len(gen.cands) : PriorRank(i) < 3 /\ ~Outcome(i).raises}

\* The index of the lowest loss, the earliest among equals
LowestNll(cands, model) ==
    CHOOSE i \in 1..Len(cands) :
        \A j \in 1..Len(cands) :
            \/ avg_nll(model, cands[j]) > avg_nll(model, cands[i])
            \/ avg_nll(model, cands[j]) = avg_nll(model, cands[i]) /\ i <= j

\* Amended: the best score among the scored ones, for rerank_with_language_model;
\* the lowest loss of all, for rank_by_causal_lm
C14_BestOfScored ==
    /\ RerankCalled /\ scorer.kind = "fn" =>
          IF ScoredOnes = {} THEN ret = text
          ELSE \E i \in ScoredOnes :
                  /\ ret = gen.cands[i][1]
                  /\ \A j \in ScoredOnes :
                        \/ Outcome(j).value < Outcome(i).value
                        \/ Outcome(j).value = Outcome(i).value /\ PriorRank(i) <= PriorRank(j)
    /\ op = "rank_by_causal_lm" /\ Len(candidates) >= 2
          /\ language_model \in {"likes_o", "likes_a"} =>
          /\ ~ret.raises
          /\ ret.value = candidates[LowestNll(candidates, language_model)]

\* Four candidates, none raises, the last by prior score has the only best
\* score, and another candidate is returned
C14_Witness ==
    /\ RerankCalled
    /\ scorer.kind = "fn"
    /\ NoneRaises
    /\ Len(gen.cands) = 4
    /\ \E i \in 1..4 :
          /\ PriorRank(i) = 3
          /\ \A j \in 1..4 : j # i => Outcome(j).value < Outcome(i).value
          /\ ret # gen.cands[i][1]

-----------------------------------------------------------------------------
(* C15: a candidate for which the score function raises is skipped and     *)
(* rerank goes on with the others; when it raises for every candidate,     *)
(* rerank returns candidates[0].  The string returned is always one of the *)
(* candidates.                                                             *)

AllRaise == \A i \in 1..Len(gen.cands) : Outcome(i).raises

C15_RaisingScorerSkipped ==
    /\ RerankCalled /\ scorer.kind = "fn" =>
          /\ \E i \in 1..Len(gen.cands) : ret = gen.cands[i][1]
          /\ AllRaise => ret = gen.cands[1][1]
    /\ op = "rank_by_causal_lm" /\ language_model = "nll_raises" /\ candidates # <<>> =>
          /\ ~ret.raises
          /\ ret.value \in Range(candidates)

\* The same statement for a score function that returns for some candidate
\* of the first three by prior score
C15_RaisingScorerSkipped_SomeScored ==
    RerankCalled /\ scorer.kind = "fn" /\ ScoredOnes # {} =>
        \E i \in ScoredOnes : ret = gen.cands[i][1]

\* The score function raised for each of two candidates, the text is none of them
C15_Witness ==
    /\ RerankCalled
    /\ scorer.kind = "fn"
    /\ Len(gen.cands) = 2
    /\ AllRaise
    /\ text = <<"x">>

-----------------------------------------------------------------------------
(* The entry points, one call each: postprocess_text_ru / _kk of the       *)
(* postprocess package, postprocess_text_ru / _kk of asr_postprocess, and  *)
(* postprocess_transcription of pipeline.py                                *)

EntryPoints == {"postprocess", "asr_postprocess", "postprocess_transcription"}

\* The empty string, a key of the common and default tables, a word the
\* index corrects
EntryTexts == {<<>>, slavo, pajdu}

\* The locals of a postprocess call before its first statement, nothing cached
PpLocalsIdle ==
    /\ _SYM_SPELL = NoIndex
    /\ work = <<>>
    /\ sym = NoIndex
    /\ corrected = <<>>
    /\ ambiguous = <<>>
    /\ candidates = <<>>

InitEntry ==
    /\ op \in EntryPoints
    /\ text \in EntryTexts
    /\ table = <<>>
    /\ CaseIdle
    /\ ret = <<>>
    /\ ret2 = <<>>
    /\ calls = 0
    /\ stages = <<>>
    /\ tables = tablesAtImport
    /\ lim = 0
    /\ pc = "start"
    /\ result = <<>>
    /\ replacements = <<>>
    /\ out = <<>>
    /\ PpLocalsIdle
    /\ \/ /\ op = "postprocess"
          /\ lang \in {"ru", "kk"}
          /\ custom = None
          /\ enable_spellcheck = FALSE
          /\ spellchecker = "none"
          /\ gen = NoGen
          /\ scorer = NoScorer
          /\ SymSpell \in BOOLEAN
          /\ language_model \in LanguageModels
          /\ dictionary \in Dictionaries
          /\ max_edit_distance \in EditDistances
          /\ enable_lm_rerank \in BOOLEAN
       \/ /\ op = "asr_postprocess"
          /\ lang \in {"ru", "kk"}
          /\ custom \in Customs
          /\ \E sa \in SpellArgs : enable_spellcheck = sa[1] /\ spellchecker = sa[2]
          /\ \E lm \in LmArgs : gen = lm[1] /\ scorer = lm[2]
          /\ SymSpell = FALSE
          /\ language_model = "absent"
          /\ dictionary = [state |-> "missing", terms |-> <<>>]
          /\ max_edit_distance = 2
          /\ enable_lm_rerank = FALSE
       \/ /\ op = "postprocess_transcription"
          /\ lang \in {"ru", "kk", "en"}
          /\ custom = None
          /\ enable_spellcheck = FALSE
          /\ spellchecker = "none"
          /\ gen = NoGen
          /\ scorer = NoScorer
          /\ SymSpell \in BOOLEAN
          /\ language_model = "absent"
          /\ dictionary = [state |-> "missing", terms |-> <<>>]
          /\ max_edit_distance = 2
          /\ enable_lm_rerank \in BOOLEAN

\* postprocess_text_ru / postprocess_text_kk of the postprocess package
EntryPostprocess ==
    /\ op = "postprocess"
    /\ PpEmpty \/ PpReplace \/ PpLoad \/ PpCorrect \/ PpGenerate \/ PpNoIndex \/ PpFinish

\* postprocess_text_ru / postprocess_text_kk of asr_postprocess
EntryAsr ==
    /\ op = "asr_postprocess"
    /\ NextAsr

\* postprocess_transcription(text, lang, use_lm): the empty text and the
\* other languages return the text; for "ru" and "kk" the call passes the
\* keyword use_language_model, which postprocess_text_ru / postprocess_text_kk
\* do not take: TypeError
EntryTranscription ==
    /\ UNCHANGED <<stages, tables>>
    /\ op = "postprocess_transcription"
    /\ pc = "start"
    /\ IF text = <<>> THEN pc' = "done" /\ result' = text
       ELSE IF lang \in {"ru", "kk"} THEN pc' = "raised" /\ UNCHANGED result
       ELSE pc' = "done" /\ result' = text
    /\ UNCHANGED <<fnVars, ppVars, lang, custom, enable_spellcheck, spellchecker, gen, scorer,
                   replacements, out>>

NextEntry == EntryPostprocess \/ EntryAsr \/ EntryTranscription

SpecEntry == InitEntry /\ [][NextEntry]_vars

-----------------------------------------------------------------------------
(* C16: every well-formed postprocess call returns a string: a failure of  *)
(* the spellchecker, of the candidate producer, of the scorer or of        *)
(* loading the language model is absorbed by a fallback and no exception   *)
(* reaches the caller.                                                     *)

C16_NoExceptionEscapes == pc # "raised"

\* The same statement for the entry points of asr_postprocess
C16_NoExceptionEscapes_Asr == op = "asr_postprocess" => pc # "raised"

\* LM rerank was enabled with two candidates and loading the model raised
C16_Witness ==
    /\ op = "postprocess"
    /\ pc = "raised"
    /\ sym.loaded
    /\ enable_lm_rerank
    /\ language_model = "load_raises"
    /\ Len(candidates) = 2

-----------------------------------------------------------------------------
(* C17: for the empty string every entry point (Russian and Kazakh, both   *)
(* packages, and postprocess_transcription) returns the empty string and   *)
(* invokes no stage: the only step of the call is its return, and it       *)
(* leaves the replacement, index, candidate and scorer state untouched.    *)

C17_EmptyInvokesNoStage ==
    [][pc = "start" /\ text = <<>> =>
          /\ pc' = "done"
          /\ result' = <<>>
          /\ UNCHANGED <<replacements, out, _SYM_SPELL, work, sym, corrected, ambiguous,
                         candidates>>]_vars

\* The empty string returned by a call that had a dictionary to load and LM
\* rerank enabled
C17_Witness ==
    /\ op = "postprocess"
    /\ pc = "done"
    /\ text = <<>>
    /\ result = <<>>
    /\ SymSpell
    /\ dictionary.state = "ok"
    /\ enable_lm_rerank
    /\ sym = NoIndex
    /\ candidates = <<>>

-----------------------------------------------------------------------------
(* C18: no mutable state is shared across postprocess calls: in every      *)
(* order of several calls, which may pass different dictionary_path or     *)
(* max_edit_distance arguments, each call returns what it would return if  *)
(* it were the only call ever made with those arguments.                   *)

Raised == [raises |-> TRUE, value |-> <<>>]
Returned(v) == [raises |-> FALSE, value |-> v]

\* What one call gives in a process where nothing is cached yet
OnlyCall(l, t, lib, resource, d, enable, model) ==
    IF t = <<>> THEN Returned(t)
    ELSE LET w == _replace_common_errors(t, CommonOf(l))
             got == _load_symspell(NoIndex, lib, resource, d)
             cor == IF got.sym.loaded THEN _correct_with_symspell(w, got.sym, d)
                    ELSE [raises |-> FALSE, text |-> w, ambiguous |-> <<>>]
             cands == IF got.sym.loaded
                      THEN <<cor.text>> \o _build_sentence_candidates(
                               cor.text, w, FindIter(w, 0, "L"), cor.ambiguous, limit)
                      ELSE <<w>>
             uniq == unique_candidates(w, cands)
         IN  IF got.raises \/ cor.raises THEN Raised
             ELSE IF ~NeedsRerank(enable, uniq) \/ model = "absent" THEN Returned(uniq[1])
             ELSE IF model = "load_raises" THEN Raised
             ELSE Returned(rank_by_causal_lm(uniq, model))

C18_CallsIndependent ==
    pc \in {"done", "raised"} =>
        LET alone == OnlyCall(lang, text, SymSpell, dictionary, max_edit_distance,
                              enable_lm_rerank, language_model)
        IN  /\ (pc = "raised") = alone.raises
            /\ pc = "done" => result = alone.value

\* The same statement for the first call of a process
C18_CallsIndependent_FirstCall ==
    op = "postprocess" => C18_CallsIndependent

\* A call whose own dictionary is missing used the index an earlier call cached
C18_Witness ==
    /\ pc \in {"done", "raised"}
    /\ text # <<>>
    /\ dictionary.state = "missing"
    /\ sym.loaded

-----------------------------------------------------------------------------
(* C19: a word token of length >= min_length farther than                  *)
(* max_edit_distance from every indexed term gets no candidates from the   *)
(* index lookup, is left unchanged in the corrected text and has no        *)
(* ambiguity recorded; a token within max_edit_distance of the only term   *)
(* of the index gets that term as top candidate.                           *)

WordTokens(s) ==
    LET spans == FindIter(s, 0, "L")
    IN  [i \in 1..Len(spans) |-> Slice(s, spans[i][1], spans[i][2])]

Far(word, index, d) ==
    \A i \in 1..Len(index.terms) : EditDistance(StrLower(word), index.terms[i][1]) > d

NearOnlyTerm(word, index, d) ==
    /\ Len(index.terms) = 1
    /\ EditDistance(StrLower(word), index.terms[1][1]) <= d

LookupReturned == op = "_symspell_candidates" /\ ~ret.raises
CorrectorReturned == op = "_correct_with_symspell" /\ ~ret.raises

\* The far tokens of the text the lookup is made for
FarTokens ==
    {i \in 1..Len(WordTokens(text)) :
        /\ Len(WordTokens(text)[i]) >= min_len
        /\ Far(WordTokens(text)[i], sym, max_edit_distance)}

C19_FarTokenNoCandidates ==
    /\ LookupReturned /\ Len(text) >= min_len /\ Far(text, sym, max_edit_distance)
           => ret.terms = <<>>
    /\ LookupReturned /\ NearOnlyTerm(text, sym, max_edit_distance)
           => ret.terms # <<>> /\ ret.terms[1] = sym.terms[1][1]
    /\ CorrectorReturned =>
           \A i \in FarTokens :
               /\ Len(WordTokens(ret.text)) = Len(WordTokens(text))
               /\ WordTokens(ret.text)[i] = WordTokens(text)[i]
               /\ \A k \in 1..Len(ret.ambiguous) : ret.ambiguous[k][1] # i - 1

\* What the lookup does give: the lower-cased token itself for a far token,
\* the only term for a near one; no ambiguity is recorded for a far token
C19_FarTokenNoCandidates_ItselfOnly ==
    /\ LookupReturned /\ Far(text, sym, max_edit_distance)
           => ret.terms = <<StrLower(text)>>
    /\ LookupReturned /\ NearOnlyTerm(text, sym, max_edit_distance)
           => ret.terms # <<>> /\ ret.terms[1] = sym.terms[1][1]
    /\ CorrectorReturned =>
           \A i \in FarTokens : \A k \in 1..Len(ret.ambiguous) : ret.ambiguous[k][1] # i - 1

\* A far token is the only candidate of its own lookup
C19_Witness ==
    /\ LookupReturned
    /\ Len(text) >= min_len
    /\ Far(text, sym, max_edit_distance)
    /\ ret.terms = <<StrLower(text)>>

\* A far token that a later replacement has overwritten in part
C19_Witness_FarTokenDamaged ==
    /\ CorrectorReturned
    /\ \E i \in FarTokens :
           \/ Len(WordTokens(ret.text)) # Len(WordTokens(text))
           \/ WordTokens(ret.text)[i] # WordTokens(text)[i]

-----------------------------------------------------------------------------
(* C20: the fuzzy corrector replaces tokens in place: the corrected text   *)
(* is the input with each replaced token substituted by its case-adapted   *)
(* top candidate and every other character preserved in order, for any     *)
(* number of replaced tokens and any lengths of the replacements.          *)

\* The replacement of a token, or the token itself when it is not replaced
Substitute(token, index, d) ==
    IF Len(token) < min_len THEN token
    ELSE LET cands == _symspell_candidates(token, index, d).terms
         IN  IF cands = <<>> \/ StrLower(cands[1]) = StrLower(token) THEN token
             ELSE _match_case_like(token, cands[1])

RECURSIVE InPlaceFrom(_, _, _, _, _, _)
\* The text from position pos on (counted from 0) with the tokens of the
\* spans k.. substituted and what lies between them kept
InPlaceFrom(s, spans, k, pos, index, d) ==
    IF k > Len(spans) THEN Slice(s, pos, Len(s))
    ELSE Slice(s, pos, spans[k][1])
            \o Substitute(Slice(s, spans[k][1], spans[k][2]), index, d)
            \o InPlaceFrom(s, spans, k + 1, spans[k][2], index, d)

InPlace(s, index, d) == InPlaceFrom(s, FindIter(s, 0, "L"), 1, 0, index, d)

C20_ReplacedInPlace ==
    CorrectorReturned => ret.text = InPlace(text, sym, max_edit_distance)

\* Every replacement has the length of the token it replaces
SameLengths ==
    \A i \in 1..Len(WordTokens(text)) :
        Len(Substitute(WordTokens(text)[i], sym, max_edit_distance)) = Len(WordTokens(text)[i])

C20_ReplacedInPlace_SameLengths ==
    CorrectorReturned /\ SameLengths => ret.text = InPlace(text, sym, max_edit_distance)

\* Two tokens were replaced, the first by a longer word
C20_Witness ==
    /\ CorrectorReturned
    /\ Len(ret.ambiguous) >= 2
    /\ ~SameLengths
    /\ ret.text # InPlace(text, sym, max_edit_distance)

-----------------------------------------------------------------------------
(* C21: every ambiguity recorded by the fuzzy corrector carries at least 2 *)
(* candidates: a replaced token with a single candidate records none, and  *)
(* a token that was not replaced records none either.                      *)

\* Token i (from 1) of the text is one the corrector replaces
Replaced(i) ==
    Substitute(WordTokens(text)[i], sym, max_edit_distance) # WordTokens(text)[i]

C21_AmbiguityHasTwoCandidates ==
    CorrectorReturned =>
        /\ \A k \in 1..Len(ret.ambiguous) : Len(ret.ambiguous[k][2]) >= 2
        /\ \A k \in 1..Len(ret.ambiguous) : Replaced(ret.ambiguous[k][1] + 1)

\* What is recorded: one entry for every replaced token, and only for those
C21_AmbiguityHasTwoCandidates_ReplacedOnly ==
    CorrectorReturned =>
        /\ \A k \in 1..Len(ret.ambiguous) : Replaced(ret.ambiguous[k][1] + 1)
        /\ \A i \in 1..Len(WordTokens(text)) :
               Replaced(i) => \E k \in 1..Len(ret.ambiguous) : ret.ambiguous[k][1] = i - 1

\* A replaced token recorded with its single candidate
C21_Witness ==
    /\ CorrectorReturned
    /\ \E k \in 1..Len(ret.ambiguous) : Len(ret.ambiguous[k][2]) = 1

\* No recorded list reaches two candidates
C21_SingleCandidateOnly ==
    CorrectorReturned => \A k \in 1..Len(ret.ambiguous) : Len(ret.ambiguous[k][2]) = 1

-----------------------------------------------------------------------------
(* C22: every variant of the candidate generator other than base_text is   *)
(* base_text with exactly one ambiguous token replaced by its second       *)
(* candidate (case reapplied) and every other character unchanged, for the *)
(* spans the pipeline passes and also when earlier fuzzy replacements      *)
(* changed the length of the text.                                         *)

RECURSIVE Perturbed(_, _, _, _)
\* The text of k tokens with the first candidate in the place of every
\* ambiguous token but the j-th of the list, which gets its second candidate
\* (pos is the place of Head(amb) in the whole list)
Perturbed(k, amb, pos, j) ==
    IF amb = <<>> THEN TokensText(k)
    ELSE LET start == 3 * Head(amb)[1]
             rest == Perturbed(k, Tail(amb), pos + 1, j)
             put == IF pos = j
                    THEN _match_case_like(Slice(TokensText(k), start, start + 2), Head(amb)[2][2])
                    ELSE Head(amb)[2][1]
         IN  Splice(rest, start, start + 2, put)

GeneratorReturned == op = "_build_sentence_candidates"

SinglePerturbations ==
    {Perturbed(Len(FindIter(text, 0, "L")), ambiguous, 1, j) :
        j \in {i \in 1..Len(ambiguous) : Len(ambiguous[i][2]) >= 2}}

C22_SingleTokenPerturbation ==
    GeneratorReturned => \A i \in 2..Len(ret) : ret[i] \in SinglePerturbations

\* Every first candidate has the length of the token it replaced
LengthsKept ==
    \A i \in 1..Len(ambiguous) : Len(ambiguous[i][2][1]) = 2

C22_SingleTokenPerturbation_LengthsKept ==
    GeneratorReturned /\ LengthsKept => \A i \in 2..Len(ret) : ret[i] \in SinglePerturbations

\* A variant made from a text that a replacement had lengthened
C22_Witness ==
    /\ GeneratorReturned
    /\ ~LengthsKept
    /\ \E i \in 2..Len(ret) : ret[i] \notin SinglePerturbations

\* In the pipeline the generator gets single-candidate lists only and adds
\* no variant to base_text
C22_PipelineAddsNoVariant ==
    pc \in {"generated", "done"} /\ sym.loaded =>
        /\ \A k \in 1..Len(ambiguous) : Len(ambiguous[k][2]) = 1
        /\ Range(candidates) \subseteq {corrected, work}

-----------------------------------------------------------------------------
(* C23: in every postprocess call on non-empty text the stages occur in    *)
(* the order dictionary-replace, fuzzy-correct, candidate-generate,        *)
(* rerank, each at most once and none before its predecessor has          *)
(* finished; the scorer is never invoked when no scorer / LM rerank is     *)
(* enabled, and the call then goes from the last enabled stage to done.    *)

StageOrder == <<"replace", "correct", "generate", "rerank">>

StageRank(st) == CHOOSE r \in 1..Len(StageOrder) : StageOrder[r] = st

ScorerEnabled == scorer.kind = "fn" \/ enable_lm_rerank

C23_Witness_AllStages ==
    /\ pc = "done"
    /\ stages = StageOrder

-----------------------------------------------------------------------------
(* C24: after any sequence of postprocess calls, with or without           *)
(* custom_replacements, the default tables of both packages and the        *)
(* caller's custom table hold exactly the entries they held before:        *)
(* merging and lookups never mutate a table.                               *)

C24_TablesAsImported == tables = tablesAtImport

-----------------------------------------------------------------------------
(* C25: the term index is loaded lazily and at most once: the first loader *)
(* call that succeeds stores the index, every later loader call returns    *)
(* that same index without reading any dictionary resource again, and the  *)
(* cached index is never replaced or reset by a later call.                *)

LoaderStep == pc = "replaced" /\ pc' # "replaced"

C25_LoadedAtMostOnce ==
    [][/\ ~LoaderStep => _SYM_SPELL' = _SYM_SPELL
       /\ _SYM_SPELL.loaded => _SYM_SPELL' = _SYM_SPELL
       /\ LoaderStep /\ _SYM_SPELL.loaded => pc' = "loaded" /\ sym' = _SYM_SPELL
       /\ LoaderStep /\ ~_SYM_SPELL.loaded /\ SymSpell /\ dictionary.state = "ok"
              => /\ _SYM_SPELL' = IndexOver(dictionary.terms, max_edit_distance)
                 /\ sym' = _SYM_SPELL']_vars

\* A later call whose own dictionary cannot be read came back from the loader
\* with the index an earlier call stored
C25_Witness ==
    /\ pc = "loaded"
    /\ dictionary.state = "unreadable"
    /\ _SYM_SPELL.loaded
    /\ sym = _SYM_SPELL

-----------------------------------------------------------------------------
(* C26: the spell-correction stage of the asr_postprocess pipelines        *)
(* preserves spacing and punctuation exactly: the delimiter tokens of its  *)
(* output are those of its input, in the same order, and only word tokens  *)
(* may differ.                                                             *)

NotWord(t) == ~is_word(t)

Delimiters(s) == SelectSeq(split_tokens_with_delimiters(s), NotWord)

\* What the stage was given: the text after the dictionary replacements
SpellcheckInput == apply_replacements(text, replacements)

SpellcheckRan == pc = "spellchecked" /\ enable_spellcheck /\ spellchecker = "symspellpy"

C26_SpacingPreserved ==
    pc = "spellchecked" => Delimiters(out) = Delimiters(SpellcheckInput)

\* Single blanks between the words, none at either end
SingleBlanks(s) ==
    /\ s # <<>> => s[1] # " " /\ s[Len(s)] # " "
    /\ \A i \in 1..(Len(s) - 1) : ~(s[i] = " " /\ s[i + 1] = " ")

C26_SpacingPreserved_SingleBlanks ==
    pc = "spellchecked" /\ SingleBlanks(SpellcheckInput)
        => Delimiters(out) = Delimiters(SpellcheckInput)

\* The stage ran on a text with a run of two blanks and gave back one
C26_Witness ==
    /\ SpellcheckRan
    /\ ~SingleBlanks(SpellcheckInput)
    /\ SingleBlanks(out)
    /\ out # SpellcheckInput

-----------------------------------------------------------------------------
(* The dictionary replacers called with a table whose key is a phrase *)

PhraseChars == {"a", "b", "A", " "}
PhraseTexts == StringsOver(PhraseChars, MaxLen + 2)

\* "a b" as a key, in lower case and with a capital
PhraseKeys == {<<"a", " ", "b">>, <<"A", " ", "b">>}
PhraseValues == {<<"b">>, <<"b", " ", "a">>}
PhraseTables == {<<<<k, v>>>> : k \in PhraseKeys, v \in PhraseValues}

InitPhrase ==
    /\ op = "none"
    /\ text \in PhraseTexts
    /\ table \in PhraseTables
    /\ CaseIdle
    /\ ret = <<>>
    /\ ret2 = <<>>
    /\ calls = 0
    /\ stages = <<>>
    /\ tables = tablesAtImport
    /\ lim = 0
    /\ NoCall

SpecPhrase == InitPhrase /\ [][Next]_vars

-----------------------------------------------------------------------------
(* C27: for a table key that contains a delimiter (a multi-word phrase),   *)
(* the dictionary replacer replaces every whole-phrase, case-insensitive   *)
(* occurrence of the key in the text by the key's value, in a pass after   *)
(* the token-wise pass; an occurrence that is only part of longer words is *)
(* not replaced.                                                           *)

\* The key occurs at offset k as a whole phrase, letter case ignored
PhraseAt(s, k, key) ==
    /\ LitAt(s, k, key)
    /\ ~IsWordCh(At(s, k - 1))
    /\ ~IsWordCh(At(s, k + Len(key)))

PhraseOffsets(s, key) == {k \in 0..(Len(s) - Len(key)) : PhraseAt(s, k, key)}

RECURSIVE PhraseReplaced(_, _, _, _)
\* The text from offset pos on with every whole-phrase occurrence of the key
\* replaced by the value
PhraseReplaced(s, pos, key, value) ==
    LET hits == {k \in PhraseOffsets(s, key) : k >= pos}
    IN  IF hits = {} THEN Slice(s, pos, Len(s))
        ELSE LET k == CHOOSE h \in hits : \A j \in hits : h <= j
             IN  Slice(s, pos, k) \o value \o PhraseReplaced(s, k + Len(key), key, value)

ReplacerReturned == op \in Replacers /\ calls >= 1

\* The result of the call is the text with the phrase replaced, letter case
\* set aside
PhraseDone ==
    StrLower(ret) = StrLower(PhraseReplaced(text, 0, table[1][1], table[1][2]))

C27_PhraseKeyReplaced ==
    ReplacerReturned /\ table \in PhraseTables => PhraseDone

\* The same statement for the two replacers of the postprocess package
C27_PhraseKeyReplaced_Postprocess ==
    ReplacerReturned /\ table \in PhraseTables /\ op # "apply_replacements" => PhraseDone

\* apply_replacements of asr_postprocess returned a text that still holds the
\* phrase
C27_Witness ==
    /\ op = "apply_replacements"
    /\ calls >= 1
    /\ table \in PhraseTables
    /\ PhraseOffsets(text, table[1][1]) # {}
    /\ ret = text

\* A text where the phrase is only part of longer words came back unchanged
C27_Witness_InsideWords ==
    /\ op = "utils_apply_replacements"
    /\ calls >= 1
    /\ table \in PhraseTables
    /\ PhraseOffsets(text, table[1][1]) = {}
    /\ \E k \in 0..(Len(text) - 3) : LitAt(text, k, table[1][1])
    /\ ret = text

====
